---- MODULE Spec2Model ----
(***************************************************************************)
(* Startup X-Ray: a model of the analysis / comparison pipeline.           *)
(*                                                                         *)
(*   SpecForm    the AnalysisForm submit flow with the useAnalysis hook    *)
(*               (create-startup, analyze, save-analysis)                  *)
(*   SpecRoute   the POST analyze and POST compare route handlers and      *)
(*               their single call to the text oracle                      *)
(*   SpecNorm    processBusinessData, the metric normaliser                *)
(*   SpecCompare the Compare page: extractMetricsFromText, createCharts    *)
(*               and the metrics table                                     *)
(*   SpecSections parseContentIntoSections, the analyze route's section    *)
(*               parser, with extractSection and formatBulletPoints        *)
(*   SpecExtract the Home page's extractDataFromAnalysis, its pattern      *)
(*               lists and section fallbacks                               *)
(*   SpecCite    the Home page's rendering of citation markers             *)
(*   SpecHome    the Home page as a component: submit, reset, chart effect *)
(*   SpecPage    the Compare page as a component: submit, reset, the       *)
(*               metrics and chart effects, the chart handles              *)
(*   SpecDash    the dashboard: expanding a startup, fetching its analyses *)
(*                                                                         *)
(* Numbers that JavaScript holds as doubles are held here in fixed point:  *)
(* the integer n stands for n/100 (see Num), so 0.23 is 23 and 2.5 is 250. *)
(***************************************************************************)
EXTENDS Integers, Sequences, FiniteSets, TLC

NULL == "null"

(***************************************************************************)
(* Bounds of the model.                                                    *)
(***************************************************************************)
MaxSubmits == 2
MaxStrLen == 5
MaxEmpLen == 5
MaxWhole == 2
MaxTextLen == 3
MaxPhraseLen == 2

VARIABLES
  \* ---- AnalysisForm + useAnalysis ----
  fpc,             \* where onSubmit is: idle | creating | analyzing | saving
  formInput,       \* the submitted form data (startupName)
  formErrors,      \* react-hook-form validation message, or NULL
  oracleUp,        \* environment: would POST /api/perplexity answer 2xx now
  loading,         \* useAnalysis.loading
  hookError,       \* useAnalysis.error
  hookAnalysis,    \* useAnalysis.analysis
  analysisResult,  \* AnalysisForm.analysisResult
  newStartupId,    \* id returned by create-startup, or NULL
  consoleLog,      \* console.error lines written by the form flow
  submits,         \* number of onSubmit runs started
  createOutcome,   \* outcome of the create-startup call of the current run
  saveOutcome,     \* outcome of the save-analysis call of the current run
  routeCalls,      \* POST /api/perplexity requests sent by the current run
  shown            \* setAnalysisResult(analysis) ran in the current run

formVars == <<fpc, formInput, formErrors, oracleUp, loading, hookError,
              hookAnalysis, analysisResult, newStartupId, consoleLog, submits,
              createOutcome, saveOutcome, routeCalls, shown>>

\* ---- POST analyze / POST compare route handlers ----
VARIABLES
  rpc,           \* idle | oracle (awaiting the completion) | done
  route,         \* which handler runs: analyze | compare | compareLegacy
  reqBody,       \* the parsed JSON body of the request
  apiKey,        \* environment: process.env.PERPLEXITY_API_KEY is set
  authOutcome,   \* what supabase.auth.getSession() did in the analyze route
  businessNames, \* the compare route's businessNames, or <<>>
  promptKind,    \* which prompt the handler built, or NULL
  oracleCalls,   \* client.chat.completions.create calls of this request
  oracleOutcome, \* what the completion call did: text | empty | reject
  response       \* the NextResponse of this request, or NULL

routeVars == <<rpc, route, reqBody, apiKey, authOutcome, businessNames,
               promptKind, oracleCalls, oracleOutcome, response>>

\* ---- processBusinessData ----
VARIABLES
  npc,         \* input (data chosen) | processed (processBusinessData ran)
  normData,    \* the JSON value object handed to processBusinessData
  metricsObj   \* the metrics record it fills

normVars == <<npc, normData, metricsObj>>

\* ---- the Compare page ----
VARIABLES
  cpc,        \* text | extracted | rendered | charted
  cNames,     \* businessNames
  cText,      \* comparisonResult, as a sequence of text segments
  cJson,      \* the JSON object an "obj" segment of the text spells
  cOutcome,   \* how extractMetricsFromText ended: NULL | returned | threw
  cMetrics,   \* the metrics state
  cTable,     \* the cells of the side-by-side metrics table
  cCharts     \* chartInstances / what was drawn on each canvas

cmpVars == <<cpc, cNames, cText, cJson, cOutcome, cMetrics, cTable, cCharts>>

\* ---- parseContentIntoSections ----
VARIABLES
  spc,        \* input | parsed
  secContent, \* the content argument
  secResult,  \* the returned sections, in key order
  secThrew    \* whether the call threw to its caller

secVars == <<spc, secContent, secResult, secThrew>>

\* ---- the Compare page as a component: state, effects, chart handles ----
VARIABLES
  pgPhase,    \* idle | fetching | unmounted
  pgUser,     \* whether useAuth() gives a user
  pgAnalyzing,\* isAnalyzing
  pgError,    \* error
  pgResult,   \* comparisonResult
  pgNames,    \* businessNames
  pgMetrics,  \* metrics
  pgPending,  \* the effects whose dependencies changed in the last commit
  pgCleanup,  \* whether the chart effect's last run returned a cleanup
  pgHandle,   \* chartInstances.current, per slot: none | live | destroyed
  pgLive,     \* per slot, the chart instances created and not destroyed
  pgSubmits   \* submits so far

pageVars == <<pgPhase, pgUser, pgAnalyzing, pgError, pgResult, pgNames,
              pgMetrics, pgPending, pgCleanup, pgHandle, pgLive, pgSubmits>>

\* ---- the Home page's heuristic extraction (extractDataFromAnalysis) ----
VARIABLES
  epc,          \* input | extracted
  exText,       \* analysisText, a sequence of tokens
  exSearchTerm, \* the watched form field searchTerm
  exData,       \* the record extractDataFromAnalysis returned
  exThrew       \* whether it raised

extractVars == <<epc, exText, exSearchTerm, exData, exThrew>>

\* ---- the Home page as a component: state, chart effect, canvases ----
VARIABLES
  hmPhase,     \* idle | fetching | unmounted
  hmUser,      \* whether useAuth() gives a user
  hmAnalyzing, \* isAnalyzing
  hmError,     \* error
  hmResult,    \* analysisResult: a text, <<>> for null
  hmSearchType,\* the watched form field searchType
  hmTerm,      \* the watched form field searchTerm
  hmPending,   \* whether the chart effect is due after the last commit
  hmCleanup,   \* whether the chart effect's last run returned cleanupCharts
  hmAttached,  \* per canvas id, the live charts on the canvas in the document
  hmDetached,  \* per canvas id, the live charts on canvases no longer there
  hmSubmits    \* submits so far

homeVars == <<hmPhase, hmUser, hmAnalyzing, hmError, hmResult, hmSearchType,
              hmTerm, hmPending, hmCleanup, hmAttached, hmDetached, hmSubmits>>

\* ---- the Home page's citation rendering of one content line ----
VARIABLES
  cipc,         \* input | rendered
  ciLine,       \* the content line, a sequence of tokens
  ciCitations,  \* the citations state
  ciRendered    \* the processed line, a sequence of pieces

citeVars == <<cipc, ciLine, ciCitations, ciRendered>>

\* ---- the dashboard: expanding a startup and fetching its analyses ----
VARIABLES
  dExpanded,   \* expandedStartup: a startup id, or NULL
  dAnalyses,   \* analyses: per startup id, whether an entry is stored
  dInFlight,   \* per startup id, the GET analyses requests not yet settled
  dRequests    \* per startup id, the GET analyses requests issued so far

dashVars == <<dExpanded, dAnalyses, dInFlight, dRequests>>

vars == <<formVars, routeVars, normVars, cmpVars, secVars, pageVars, extractVars, homeVars, citeVars, dashVars>>

\* A step of one component leaves the other components alone.
FormStep == UNCHANGED <<routeVars, normVars, cmpVars, secVars, pageVars, extractVars, homeVars, citeVars, dashVars>>
RouteStep == UNCHANGED <<formVars, normVars, cmpVars, secVars, pageVars, extractVars, homeVars, citeVars, dashVars>>
NormStep == UNCHANGED <<formVars, routeVars, cmpVars, secVars, pageVars, extractVars, homeVars, citeVars, dashVars>>
CompareStep == UNCHANGED <<formVars, routeVars, normVars, secVars, pageVars, extractVars, homeVars, citeVars, dashVars>>
SectionsStep == UNCHANGED <<formVars, routeVars, normVars, cmpVars, pageVars, extractVars, homeVars, citeVars, dashVars>>
PageStep == UNCHANGED <<formVars, routeVars, normVars, cmpVars, secVars, extractVars, homeVars, citeVars, dashVars>>
ExtractStep == UNCHANGED <<formVars, routeVars, normVars, cmpVars, secVars, pageVars, homeVars, citeVars, dashVars>>
HomeStep == UNCHANGED <<formVars, routeVars, normVars, cmpVars, secVars, pageVars, extractVars, citeVars, dashVars>>
CiteStep == UNCHANGED <<formVars, routeVars, normVars, cmpVars, secVars, pageVars, extractVars, homeVars, dashVars>>
DashStep == UNCHANGED <<formVars, routeVars, normVars, cmpVars, secVars, pageVars, extractVars, homeVars, citeVars>>

(***************************************************************************)
(* AnalysisForm.onSubmit and the useAnalysis hook                           *)
(***************************************************************************)
StartupNames == {"", "Acme"}

\* fetch('/api/startups') outcomes: 2xx with a row, 2xx without a row
\* (startupData.data[0] is undefined), non-2xx, rejected promise.
CreateOutcomes == {"ok", "noRow", "notOk", "reject"}

\* fetch('/api/analyses') outcomes.
SaveOutcomes == {"ok", "notOk", "reject"}

\* The analysis object answered by POST /api/perplexity.
AnalysisOf(name) == [analysis |-> <<"sections", name>>]

\* analysisSchema: startupName must have at least one character.
analysisSchema(data) == data.startupName # ""

IdleForm ==
  /\ fpc = "idle"
  /\ formInput = NULL
  /\ formErrors = NULL
  /\ loading = FALSE
  /\ hookError = NULL
  /\ hookAnalysis = NULL
  /\ analysisResult = NULL
  /\ newStartupId = NULL
  /\ consoleLog = <<>>
  /\ submits = 0
  /\ createOutcome = NULL
  /\ saveOutcome = NULL
  /\ routeCalls = 0
  /\ shown = FALSE

\* handleSubmit(onSubmit) with data failing the schema: onSubmit is not run.
SubmitInvalid ==
  /\ FormStep
  /\ fpc = "idle"
  /\ analysisResult = NULL
  /\ \E name \in StartupNames :
       /\ ~analysisSchema([startupName |-> name])
       /\ formErrors' = "Startup name is required"
  /\ UNCHANGED <<fpc, formInput, oracleUp, loading, hookError, hookAnalysis,
                 analysisResult, newStartupId, consoleLog, submits,
                 createOutcome, saveOutcome, routeCalls, shown>>

\* onSubmit starts: the create-startup request is sent.
OnSubmit ==
  /\ FormStep
  /\ fpc = "idle"
  /\ analysisResult = NULL
  /\ submits < MaxSubmits
  /\ \E name \in StartupNames :
       /\ analysisSchema([startupName |-> name])
       /\ formInput' = [startupName |-> name]
  /\ formErrors' = NULL
  /\ oracleUp' \in BOOLEAN
  /\ fpc' = "creating"
  /\ submits' = submits + 1
  /\ createOutcome' = NULL
  /\ saveOutcome' = NULL
  /\ routeCalls' = 0
  /\ shown' = FALSE
  /\ newStartupId' = NULL
  /\ UNCHANGED <<loading, hookError, hookAnalysis, analysisResult, consoleLog>>

\* The create-startup call answers 2xx with a row: onSubmit goes on to
\* analyzeStartup, which sets loading, clears error and posts the request.
CreateStartupOk ==
  /\ FormStep
  /\ fpc = "creating"
  /\ createOutcome' = "ok"
  /\ newStartupId' = "id1"
  /\ loading' = TRUE
  /\ hookError' = NULL
  /\ routeCalls' = routeCalls + 1
  /\ fpc' = "analyzing"
  /\ UNCHANGED <<formInput, formErrors, oracleUp, hookAnalysis, analysisResult,
                 consoleLog, submits, saveOutcome, shown>>

\* The create-startup call fails: the throw lands in onSubmit's catch, which
\* logs and returns.
CreateStartupFails ==
  /\ FormStep
  /\ fpc = "creating"
  /\ \E o \in CreateOutcomes \ {"ok"} : createOutcome' = o
  /\ consoleLog' = Append(consoleLog, "Error in analysis process: create")
  /\ fpc' = "idle"
  /\ UNCHANGED <<formInput, formErrors, oracleUp, loading, hookError,
                 hookAnalysis, analysisResult, newStartupId, submits,
                 saveOutcome, routeCalls, shown>>

\* generateStartupAnalysis resolves: setAnalysis, setLoading(false), then
\* onSubmit shows the result and sends the save-analysis request.
AnalyzeOk ==
  /\ FormStep
  /\ fpc = "analyzing"
  /\ oracleUp
  /\ hookAnalysis' = AnalysisOf(formInput.startupName)
  /\ loading' = FALSE
  /\ analysisResult' = AnalysisOf(formInput.startupName).analysis
  /\ shown' = TRUE
  /\ fpc' = "saving"
  /\ UNCHANGED <<formInput, formErrors, oracleUp, hookError, newStartupId,
                 consoleLog, submits, createOutcome, saveOutcome, routeCalls>>

\* generateStartupAnalysis throws: setError, setLoading(false), rethrow into
\* onSubmit's catch.
AnalyzeFails ==
  /\ FormStep
  /\ fpc = "analyzing"
  /\ ~oracleUp
  /\ hookError' = "Failed to generate startup analysis"
  /\ loading' = FALSE
  /\ consoleLog' = Append(consoleLog, "Error in analysis process: analyze")
  /\ fpc' = "idle"
  /\ UNCHANGED <<formInput, formErrors, oracleUp, hookAnalysis, analysisResult,
                 newStartupId, submits, createOutcome, saveOutcome, routeCalls,
                 shown>>

\* saveAnalysis resolves.
SaveOk ==
  /\ FormStep
  /\ fpc = "saving"
  /\ saveOutcome' = "ok"
  /\ fpc' = "idle"
  /\ UNCHANGED <<formInput, formErrors, oracleUp, loading, hookError,
                 hookAnalysis, analysisResult, newStartupId, consoleLog,
                 submits, createOutcome, routeCalls, shown>>

\* saveAnalysis fails: its catch calls setError and rethrows into onSubmit's
\* catch, which logs.
SaveFails ==
  /\ FormStep
  /\ fpc = "saving"
  /\ \E o \in SaveOutcomes \ {"ok"} :
       /\ saveOutcome' = o
       /\ hookError' = IF o = "notOk" THEN "Failed to save analysis"
                                      ELSE "fetch failed"
  /\ consoleLog' = Append(consoleLog, "Error in analysis process: save")
  /\ fpc' = "idle"
  /\ UNCHANGED <<formInput, formErrors, oracleUp, loading, hookAnalysis,
                 analysisResult, newStartupId, submits, createOutcome,
                 routeCalls, shown>>

\* The 'Analyze Another Startup' button.
AnalyzeAnother ==
  /\ FormStep
  /\ analysisResult # NULL
  /\ analysisResult' = NULL
  /\ UNCHANGED <<fpc, formInput, formErrors, oracleUp, loading, hookError,
                 hookAnalysis, newStartupId, consoleLog, submits,
                 createOutcome, saveOutcome, routeCalls, shown>>

NextForm ==
  \/ SubmitInvalid
  \/ OnSubmit
  \/ CreateStartupOk
  \/ CreateStartupFails
  \/ AnalyzeOk
  \/ AnalyzeFails
  \/ SaveOk
  \/ SaveFails
  \/ AnalyzeAnother

(***************************************************************************)
(* Strings as sequences of characters, with String.prototype.split(',')    *)
(* and String.prototype.trim()                                             *)
(***************************************************************************)
Chars == {"a", ",", " "}

Strings == UNION {[1..n -> Chars] : n \in 0..MaxStrLen}

RECURSIVE TrimStart(_)
TrimStart(s) ==
  IF s # <<>> /\ Head(s) = " " THEN TrimStart(Tail(s)) ELSE s

RECURSIVE TrimEnd(_)
TrimEnd(s) ==
  IF s # <<>> /\ s[Len(s)] = " " THEN TrimEnd(SubSeq(s, 1, Len(s) - 1)) ELSE s

trim(s) == TrimEnd(TrimStart(s))

\* s.split(','): always at least one piece; "" splits into [""].
RECURSIVE split(_)
split(s) ==
  IF \E i \in 1..Len(s) : s[i] = ","
  THEN LET i == CHOOSE k \in 1..Len(s) :
                  s[k] = "," /\ \A j \in 1..(k - 1) : s[j] # ","
       IN <<SubSeq(s, 1, i - 1)>> \o split(SubSeq(s, i + 1, Len(s)))
  ELSE <<s>>

\* businessesString.split(',').map(name => name.trim())
SplitNames(s) == LET parts == split(s) IN [i \in 1..Len(parts) |-> trim(parts[i])]

(***************************************************************************)
(* JSON values of a request body                                           *)
(***************************************************************************)
\* Fixed point: Num(2, 50) is 2.5.
Num(whole, hundredths) == whole * 100 + hundredths

Undefined == [k |-> "undefined", n |-> 0, s |-> <<>>]
JNull == [k |-> "null", n |-> 0, s |-> <<>>]
NaN == [k |-> "NaN", n |-> 0, s |-> <<>>]
Number(n) == [k |-> "number", n |-> n, s |-> <<>>]
Str(s) == [k |-> "string", n |-> 0, s |-> s]
\* A string that is only ever compared as a whole.
Word(w) == Str(<<w>>)

\* JavaScript truthiness: a number other than 0 or a non-empty string;
\* undefined, null, NaN, 0 and '' are falsy.
Truthy(v) == \/ v.k = "number" /\ v.n # 0
             \/ v.k = "string" /\ v.s # <<>>

\* Bodies of POST analyze: each name absent, empty or present.
NameVals == {Undefined, Str(<<>>), Str(<<"a">>)}
AnalyzeBodies == [startupName : NameVals, founderName : NameVals]

\* Bodies of POST compare: businessesString absent, not a string, or a string.
CompareBodies ==
  [businessesString : {Undefined, Number(0), Number(Num(42, 0))}
                        \cup {Str(s) : s \in Strings}]

\* supabase.auth.getSession(): a session, none, an error object, or a throw.
AuthOutcomes == {"session", "noSession", "error", "throws"}

\* What the oracle does with one completion call: text content, null
\* content, or a rejected call (transport / auth failure).
OracleOutcomes == {"text", "empty", "reject"}

Json(status, success, payload) ==
  [status |-> status, success |-> success, payload |-> payload]

\* Faulty variant of CatchResponse: the catch block answers a success envelope.
CatchResponse_Success(message) == Json(200, TRUE, message)

\* The handlers' catch block: the error envelope with status 500.
CatchResponse(message) == Json(500, FALSE, message)

\* The handlers' last statement: success with the parsed or raw content.
SuccessResponse(handler, content) ==
  Json(200, TRUE, IF handler = "analyze" THEN <<"sections", content>>
                                         ELSE <<"comparison", content>>)

\* Faulty variant of AnalyzeInvalid: || in place of &&.
AnalyzeInvalid_Or(body) == ~Truthy(body.startupName) \/ ~Truthy(body.founderName)

\* route.ts line 16: the analyze route's validation.
AnalyzeInvalid(body) == ~Truthy(body.startupName) /\ ~Truthy(body.founderName)

\* route.ts lines 49-82: which prompt is built.
AnalyzePrompt(body) ==
  IF Truthy(body.startupName) /\ ~Truthy(body.founderName) THEN "startup"
  ELSE IF Truthy(body.founderName) /\ ~Truthy(body.startupName) THEN "founder"
  ELSE "startupByFounder"

\* Compare route, first check: missing, not a string, or blank.
CompareMissing(v) == \/ ~Truthy(v)
                     \/ v.k # "string"
                     \/ trim(v.s) = <<>>

\* Compare route, second check on the extracted names.
CompareWrongCount(names) == Len(names) # 2

IdleRoute ==
  /\ rpc = "idle"
  /\ route = NULL
  /\ reqBody = NULL
  /\ authOutcome = NULL
  /\ businessNames = <<>>
  /\ promptKind = NULL
  /\ oracleCalls = 0
  /\ oracleOutcome = NULL
  /\ response = NULL

\* POST analyze, up to the point where it answers or awaits the completion.
\* The session check never changes the flow: an error, a throw and a missing
\* session are logged or ignored and the handler continues.
AnalyzePOST ==
  /\ RouteStep
  /\ rpc = "idle"
  /\ route' = "analyze"
  /\ \E body \in AnalyzeBodies, auth \in AuthOutcomes :
       /\ reqBody' = body
       /\ IF AnalyzeInvalid(body)
          THEN /\ response' = Json(400, FALSE, "Either startup name or founder name is required")
               /\ authOutcome' = NULL
               /\ promptKind' = NULL
               /\ oracleCalls' = 0
               /\ rpc' = "done"
          ELSE /\ authOutcome' = auth
               /\ promptKind' = AnalyzePrompt(body)
               /\ oracleCalls' = 1
               /\ response' = NULL
               /\ rpc' = "oracle"
  /\ businessNames' = <<>>
  /\ UNCHANGED <<apiKey, oracleOutcome>>

\* POST compare (the validating handler).
ComparePOST ==
  /\ RouteStep
  /\ rpc = "idle"
  /\ route' = "compare"
  /\ authOutcome' = NULL
  /\ \E body \in CompareBodies :
       /\ reqBody' = body
       /\ IF CompareMissing(body.businessesString)
          THEN /\ response' = Json(400, FALSE, "Please provide business names to compare")
               /\ businessNames' = <<>>
               /\ promptKind' = NULL
               /\ oracleCalls' = 0
               /\ rpc' = "done"
          ELSE LET names == SplitNames(body.businessesString.s) IN
               /\ businessNames' = names
               /\ IF CompareWrongCount(names)
                  THEN /\ response' = Json(400, FALSE, "Please provide exactly two businesses to compare")
                       /\ promptKind' = NULL
                       /\ oracleCalls' = 0
                       /\ rpc' = "done"
                  ELSE IF ~apiKey
                  THEN /\ response' = Json(500, FALSE, "Perplexity API key is not configured")
                       /\ promptKind' = "compareJson"
                       /\ oracleCalls' = 0
                       /\ rpc' = "done"
                  ELSE /\ promptKind' = "compareJson"
                       /\ oracleCalls' = 1
                       /\ response' = NULL
                       /\ rpc' = "oracle"
  /\ UNCHANGED <<apiKey, oracleOutcome>>

\* POST compare (the handler without validation): businessesString.split
\* throws a TypeError when the value is not a string.
CompareLegacyPOST ==
  /\ RouteStep
  /\ rpc = "idle"
  /\ route' = "compareLegacy"
  /\ authOutcome' = NULL
  /\ \E body \in CompareBodies :
       /\ reqBody' = body
       /\ IF body.businessesString.k # "string"
          THEN /\ response' = CatchResponse("TypeError")
               /\ businessNames' = <<>>
               /\ promptKind' = NULL
               /\ oracleCalls' = 0
               /\ rpc' = "done"
          ELSE /\ businessNames' = SplitNames(body.businessesString.s)
               /\ promptKind' = "compareText"
               /\ IF ~apiKey
                  THEN /\ response' = Json(500, FALSE, "Perplexity API key is not configured")
                       /\ oracleCalls' = 0
                       /\ rpc' = "done"
                  ELSE /\ oracleCalls' = 1
                       /\ response' = NULL
                       /\ rpc' = "oracle"
  /\ UNCHANGED <<apiKey, oracleOutcome>>

\* The completion call resolves: the handler answers success.  Null content
\* becomes '' in the analyze route (content || '') and is passed on as it is
\* by the compare routes.
OracleResolves ==
  /\ RouteStep
  /\ rpc = "oracle"
  /\ \E o \in OracleOutcomes \ {"reject"} :
       /\ oracleOutcome' = o
       /\ response' = SuccessResponse(route, o)
  /\ rpc' = "done"
  /\ UNCHANGED <<route, reqBody, apiKey, authOutcome, businessNames,
                 promptKind, oracleCalls>>

\* The completion call rejects: the catch answers the error envelope.
OracleRejects ==
  /\ RouteStep
  /\ rpc = "oracle"
  /\ oracleOutcome' = "reject"
  /\ response' = CatchResponse("oracle error")
  /\ rpc' = "done"
  /\ UNCHANGED <<route, reqBody, apiKey, authOutcome, businessNames,
                 promptKind, oracleCalls>>

\* The response has been sent; the server waits for the next request.  The
\* environment may have been reconfigured in between.
NextRequest ==
  /\ RouteStep
  /\ rpc = "done"
  /\ rpc' = "idle"
  /\ route' = NULL
  /\ reqBody' = NULL
  /\ apiKey' \in BOOLEAN
  /\ authOutcome' = NULL
  /\ businessNames' = <<>>
  /\ promptKind' = NULL
  /\ oracleCalls' = 0
  /\ oracleOutcome' = NULL
  /\ response' = NULL

NextRoute ==
  \/ AnalyzePOST
  \/ ComparePOST
  \/ CompareLegacyPOST
  \/ OracleResolves
  \/ OracleRejects
  \/ NextRequest

(***************************************************************************)
(* processBusinessData: the metric normaliser                              *)
(***************************************************************************)
MetricFields == {"foundingYear", "funding", "valuation", "employees",
                 "revenue", "growthRate", "marketShare", "marketSize"}

UnitFields == {"fundingUnit", "valuationUnit", "revenueUnit", "marketSizeUnit"}

\* The metrics record extractMetricsFromText starts from: every field null.
NullMetrics == [f \in MetricFields |-> JNull]

\* A JSON value object with no field at all.
EmptyData == [f \in MetricFields \cup UnitFields |-> Undefined]

\* ---- strings of digits: parseInt, Number() ----
EmpChars == {"0", "1", ",", "_", "x"}
Digits == {"0", "1"}
DigitVal(c) == IF c = "1" THEN 1 ELSE 0

RECURSIVE DigitsValue(_)
DigitsValue(ds) ==
  IF ds = <<>> THEN 0
  ELSE DigitsValue(SubSeq(ds, 1, Len(ds) - 1)) * 10 + DigitVal(ds[Len(ds)])

\* The longest prefix of s made of digits.
RECURSIVE DigitPrefix(_)
DigitPrefix(s) ==
  IF s # <<>> /\ Head(s) \in Digits THEN <<Head(s)>> \o DigitPrefix(Tail(s))
  ELSE <<>>

\* parseInt(s): the integer written by the leading digits, NaN without any.
parseInt(s) ==
  IF DigitPrefix(s) = <<>> THEN NaN
  ELSE Number(Num(DigitsValue(DigitPrefix(s)), 0))

\* s.replace(/_/g, '')
StripUnderscores(s) == SelectSeq(s, LAMBDA c : c # "_")

\* Number(v) as the arithmetic operators apply it: a string of digits is its
\* number, any other string here is NaN.
ToNumber(v) ==
  IF v.k = "number" THEN v
  ELSE IF v.k = "string" /\ v.s # <<>> /\ \A i \in 1..Len(v.s) : v.s[i] \in Digits
       THEN Number(Num(DigitsValue(v.s), 0))
  ELSE NaN

\* v * k for an integer literal k.
Times(v, k) ==
  IF ToNumber(v).k = "number" THEN Number(ToNumber(v).n * k) ELSE NaN

\* v <= 1
AtMostOne(v) == ToNumber(v).k = "number" /\ ToNumber(v).n <= Num(1, 0)

\* page.tsx lines 570-575 and 581-582: a money value in millions.  Only the
\* valuation expression has the 'trillion' arm.
MoneyToMillions(value, unit, trillion) ==
  IF trillion /\ unit = Word("trillion") THEN Times(value, 1000000)
  ELSE IF unit = Word("billion") THEN Times(value, 1000)
  ELSE value

\* Faulty variant of RatioToPercent: the threshold test is < 1.
RatioToPercent_Strict(value) ==
  IF ToNumber(value).k = "number" /\ ToNumber(value).n < Num(1, 0)
  THEN Times(value, 100) ELSE value

\* page.tsx lines 584-588: a ratio as a percentage.
RatioToPercent(value) ==
  IF AtMostOne(value) THEN Times(value, 100) ELSE value

\* page.tsx lines 577-579: the employee count.
EmployeeCount(value) ==
  IF value.k = "string" THEN parseInt(StripUnderscores(value.s)) ELSE value

\* page.tsx lines 590-591: the market size in billions.
MarketSizeBillions(value, unit) ==
  IF unit = Word("trillion") THEN Times(value, 1000) ELSE value

\* Faulty variant of processBusinessData: a missing value defaults to 0.
processBusinessData_Zero(data, m) ==
  [f \in {"foundingYear", "funding", "valuation", "employees", "revenue",
          "growthRate", "marketShare", "marketSize"} |->
     IF Truthy(data[f]) THEN data[f] ELSE Number(0)]

\* Faulty variant of processBusinessData: a value is dropped only when it
\* is absent, so a 0 is kept.
processBusinessData_KeepZero(data, m) ==
  [f \in {"foundingYear", "funding", "valuation", "employees", "revenue",
          "growthRate", "marketShare", "marketSize"} |->
     IF data[f].k \in {"undefined", "null"} THEN JNull ELSE data[f]]

\* processBusinessData(data, metricsObj): every field is overwritten, a
\* falsy field value becomes null.
processBusinessData(data, m) ==
  [foundingYear |-> IF Truthy(data.foundingYear) THEN data.foundingYear ELSE JNull,
   funding      |-> IF Truthy(data.funding)
                    THEN MoneyToMillions(data.funding, data.fundingUnit, FALSE)
                    ELSE JNull,
   valuation    |-> IF Truthy(data.valuation)
                    THEN MoneyToMillions(data.valuation, data.valuationUnit, TRUE)
                    ELSE JNull,
   employees    |-> IF Truthy(data.employees)
                    THEN EmployeeCount(data.employees) ELSE JNull,
   revenue      |-> IF Truthy(data.revenue)
                    THEN MoneyToMillions(data.revenue, data.revenueUnit, FALSE)
                    ELSE JNull,
   growthRate   |-> IF Truthy(data.growthRate)
                    THEN RatioToPercent(data.growthRate) ELSE JNull,
   marketShare  |-> IF Truthy(data.marketShare)
                    THEN RatioToPercent(data.marketShare) ELSE JNull,
   marketSize   |-> IF Truthy(data.marketSize)
                    THEN MarketSizeBillions(data.marketSize, data.marketSizeUnit)
                    ELSE JNull]

\* ---- the JSON value objects the normaliser is run on ----
Hundredths == {0, 1, 23, 50}
MoneyVals == {Num(w, h) : w \in 0..MaxWhole, h \in Hundredths}
RatioVals == MoneyVals \cup {Num(45, 0)}
UnitVals == {Undefined, Word("million"), Word("billion"), Word("trillion")}
EmpStrings == UNION {[1..n -> EmpChars] : n \in 1..MaxEmpLen}

UnitOf(f) == CASE f = "funding" -> "fundingUnit"
               [] f = "valuation" -> "valuationUnit"
               [] f = "revenue" -> "revenueUnit"
               [] f = "marketSize" -> "marketSizeUnit"

\* One scaled field with its unit, the rest absent.
ScaledData ==
  {[EmptyData EXCEPT ![f] = v, ![UnitOf(f)] = u] :
     f \in {"funding", "valuation", "revenue", "marketSize"},
     v \in {JNull} \cup {Number(x) : x \in MoneyVals},
     u \in UnitVals}

\* One ratio field, the rest absent.
RatioData ==
  {[EmptyData EXCEPT ![f] = v] :
     f \in {"growthRate", "marketShare"},
     v \in {JNull} \cup {Number(x) : x \in RatioVals}}

\* The employees field as a number or as a string, the rest absent.
EmployeeData ==
  {[EmptyData EXCEPT !["employees"] = v] :
     v \in {JNull} \cup {Number(x) : x \in MoneyVals}
             \cup {Str(s) : s \in EmpStrings}}

\* The founding year, the rest absent.
YearData ==
  {[EmptyData EXCEPT !["foundingYear"] = v] :
     v \in {JNull, Number(0), Number(Num(2015, 0))}}

\* Any set of metric fields present with the value 2 (units: million).
PresenceData ==
  {[f \in MetricFields \cup UnitFields |->
      IF f \in present THEN Number(Num(2, 0))
      ELSE IF f \in UnitFields THEN Word("million") ELSE Undefined] :
     present \in SUBSET MetricFields}

DataObjects == ScaledData \cup RatioData \cup EmployeeData \cup YearData \cup PresenceData

IdleNorm ==
  /\ npc = "input"
  /\ normData = EmptyData
  /\ metricsObj = NullMetrics

\* processBusinessData(jsonData[...], metrics[name])
ProcessBusinessData ==
  /\ NormStep
  /\ npc = "input"
  /\ metricsObj' = processBusinessData(normData, metricsObj)
  /\ npc' = "processed"
  /\ UNCHANGED normData

NextNorm ==
  \/ ProcessBusinessData

(***************************************************************************)
(* The Compare page: extractMetricsFromText                                *)
(***************************************************************************)
\* Business names, as the user or the oracle may capitalise them.
NamePool == {<<"A", "c", "m", "e">>, <<"a", "c", "m", "e">>,
             <<"A", "C", "M", "E">>, <<"G", "l", "o", "b", "e", "x">>,
             <<"H", "o", "o", "l", "i">>}

\* String.prototype.toLowerCase, character by character.
LowerChar(c) ==
  CASE c = "A" -> "a" [] c = "C" -> "c" [] c = "M" -> "m"
    [] c = "E" -> "e" [] c = "G" -> "g" [] c = "H" -> "h" [] OTHER -> c

toLowerCase(name) == [i \in 1..Len(name) |-> LowerChar(name[i])]

\* The oracle text, cut into segments: prose, the fence markers ```json and
\* ```, a well-formed JSON object ("obj", spelling cJson) and a malformed
\* one ("badobj": two-key shaped, but JSON.parse rejects it).
Segments == {"prose", "fenceJson", "fence", "obj", "badobj"}

TextShapes ==
  { <<"prose">>,
    <<"prose", "fenceJson", "obj", "fence", "prose">>,
    <<"fence", "obj", "fence">>,
    <<"prose", "obj", "prose">>,
    <<"fenceJson", "badobj", "fence", "prose">>,
    <<"fenceJson", "fence">>,
    <<"fenceJson", "prose", "obj", "fence">>,
    <<"prose", "fence", "prose">>,
    <<"fenceJson", "obj">> }

IsFence(t) == t \in {"fence", "fenceJson"}

NoMatch == [found |-> FALSE, whole |-> <<>>, group |-> <<>>]

\* text.match(/<opening>\s*([\s\S]*?)\s*```/) for a set of opening markers: the
\* leftmost opening marker with a fence after it, up to the nearest fence.
FenceMatch(text, opening) ==
  LET opens == {i \in 1..Len(text) :
                  text[i] \in opening /\ \E j \in (i + 1)..Len(text) : IsFence(text[j])}
  IN IF opens = {} THEN NoMatch
     ELSE LET i == CHOOSE x \in opens : \A y \in opens : x <= y
              j == CHOOSE x \in (i + 1)..Len(text) :
                     IsFence(text[x]) /\ \A y \in (i + 1)..(x - 1) : ~IsFence(text[y])
          IN [found |-> TRUE, whole |-> SubSeq(text, i, j),
              group |-> SubSeq(text, i + 1, j - 1)]

\* text.match(/\{\s*"[^"]+"\s*:\s*\{...\}\s*,\s*"[^"]+"\s*:\s*\{...\}\s*\}/):
\* the leftmost object with two keys; the match has no capture group.
BareObjectMatch(text, json) ==
  LET hits == {i \in 1..Len(text) :
                 \/ text[i] = "badobj"
                 \/ text[i] = "obj" /\ Cardinality(DOMAIN json) >= 2}
  IN IF hits = {} THEN NoMatch
     ELSE LET i == CHOOSE x \in hits : \A y \in hits : x <= y
          IN [found |-> TRUE, whole |-> <<text[i]>>, group |-> <<>>]

\* page.tsx lines 508-518: the three searches in order.
JsonMatch(text, json) ==
  LET m1 == FenceMatch(text, {"fenceJson"})
      m2 == FenceMatch(text, {"fence", "fenceJson"})
  IN IF m1.found THEN m1
     ELSE IF m2.found THEN m2
     ELSE BareObjectMatch(text, json)

\* const jsonStr = jsonMatch[1] || jsonMatch[0]
JsonStr(m) == IF m.group # <<>> THEN m.group ELSE m.whole

\* Faulty variant of ParseOk: text around the object is tolerated.
ParseOk_Lenient(jsonStr) == \E i \in 1..Len(jsonStr) : jsonStr[i] = "obj"

\* JSON.parse succeeds exactly on a well-formed object standing alone.
ParseOk(jsonStr) == jsonStr = <<"obj">>

\* Faulty variant of InitialMetrics: the record starts from 0 instead of null.
InitialMetrics_Zero(names) ==
  [name \in {names[1], names[2]} |-> [f \in MetricFields |-> Number(0)]]

\* page.tsx lines 482-503: every field of both subjects starts null.
InitialMetrics(names) == [name \in {names[1], names[2]} |-> NullMetrics]

\* page.tsx lines 530-538: the value object used for a name: the one under
\* the lower-cased name, else the one under the name as typed, else none.
MatchedKey(json, name) ==
  IF toLowerCase(name) \in DOMAIN json THEN <<toLowerCase(name)>>
  ELSE IF name \in DOMAIN json THEN <<name>>
  ELSE <<>>

\* businessNames.forEach(...): the records are filled in place, in order.
FillMetrics(json, names, metrics) ==
  LET fill(m, name) ==
        IF MatchedKey(json, name) = <<>> THEN m
        ELSE [m EXCEPT ![name] =
                processBusinessData(json[MatchedKey(json, name)[1]], m[name])]
  IN fill(fill(metrics, names[1]), names[2])

\* extractMetricsFromText(text, businessNames).  Every path returns the
\* metrics record: after a successful parse (line 541), and after no match
\* or a caught exception (line 561).  Nothing is thrown to the caller.
extractMetricsFromText(text, json, names) ==
  LET m == JsonMatch(text, json)
  IN IF m.found /\ ParseOk(JsonStr(m))
     THEN [threw |-> FALSE, metrics |-> FillMetrics(json, names, InitialMetrics(names))]
     ELSE [threw |-> FALSE, metrics |-> InitialMetrics(names)]

\* ---- the metrics table (page.tsx lines 1051-1127) ----
TablePrefix(f) ==
  IF f \in {"funding", "valuation", "revenue", "marketSize"} THEN "$" ELSE ""

TableSuffix(f) ==
  CASE f \in {"funding", "valuation", "revenue"} -> "M"
    [] f \in {"growthRate", "marketShare"} -> "%"
    [] f = "marketSize" -> "B"
    [] OTHER -> ""

\* One cell: metrics[name].field !== null ? formatted value : 'N/A'
TableCell(metrics, name, f) ==
  IF metrics[name][f] # JNull
  THEN [text |-> "value", prefix |-> TablePrefix(f), value |-> metrics[name][f],
        suffix |-> TableSuffix(f)]
  ELSE [text |-> "N/A", prefix |-> "", value |-> JNull, suffix |-> ""]

metricsTable(metrics, names) ==
  [i \in 1..2 |-> [f \in MetricFields |-> TableCell(metrics, names[i], f)]]

\* ---- createCharts (page.tsx lines 594-940) ----
\* The canvases the page mounts (lines 1037-1050): there is none for the
\* valuation chart, so chartRefs.current.valuation stays unset.
ChartSlots == {"radar", "market", "funding", "valuation", "growth"}
MountedCanvases == {"radar", "market", "funding", "growth"}

NoChart == [kind |-> "none", points |-> <<>>, message |-> ""]
Placeholder(msg) == [kind |-> "placeholder", points |-> <<>>, message |-> msg]
ChartOf(type, points) == [kind |-> type, points |-> points, message |-> ""]

\* One plotted value: whose it is (index into businessNames, 0 for the
\* rest of the market), the metric it stands for, the label and the colour.
Point(i, label, field, value) ==
  [subject |-> i, label |-> label, field |-> field, value |-> value, colour |-> i]

\* filterNulls followed by the bar chart's data, labels and colours.
BarPoints(metrics, names, f) ==
  LET keep(i) == metrics[names[i]][f] # JNull
      pt(i) == Point(i, names[i], f, metrics[names[i]][f])
  IN (IF keep(1) THEN <<pt(1)>> ELSE <<>>) \o (IF keep(2) THEN <<pt(2)>> ELSE <<>>)

BarChart(metrics, names, f, msg) ==
  IF BarPoints(metrics, names, f) # <<>>
  THEN ChartOf("bar", BarPoints(metrics, names, f))
  ELSE Placeholder(msg)

\* value || 0
OrZero(v) == IF Truthy(v) THEN v ELSE Number(0)

Min(a, b) == IF a <= b THEN a ELSE b

\* normalizeValue(value, metric): Math.min(100, (value / max) * 100).
normalizeValue(value, metric) ==
  LET maxValues == [funding |-> 500, valuation |-> 2000, employees |-> 1000,
                    revenue |-> 500, growthRate |-> 100, marketShare |-> 100,
                    marketSize |-> 1000]
  IN IF value = JNull THEN Number(0)
     ELSE IF ToNumber(value) = NaN THEN NaN
     ELSE Number(Min(Num(100, 0), (ToNumber(value).n * 100) \div maxValues[metric]))

RadarFields ==
  <<"funding", "valuation", "employees", "revenue", "growthRate", "marketShare">>

\* One radar dataset: a null field is plotted as 0.
RadarPoints(metrics, names, i) ==
  [k \in 1..Len(RadarFields) |->
     Point(i, names[i], RadarFields[k],
           IF metrics[names[i]][RadarFields[k]] # JNull
           THEN normalizeValue(metrics[names[i]][RadarFields[k]], RadarFields[k])
           ELSE Number(0))]

KnownCount(m) == Cardinality({f \in MetricFields : m[f] # JNull})

RadarChart(metrics, names) ==
  IF \E i \in 1..2 : KnownCount(metrics[names[i]]) >= 3
  THEN ChartOf("radar", RadarPoints(metrics, names, 1) \o RadarPoints(metrics, names, 2))
  ELSE Placeholder("Insufficient data for comparison")

\* marketSize * (marketShare / 100), and the rest of the first market.
MarketSlice(m) ==
  IF ToNumber(OrZero(m.marketSize)) = NaN \/ ToNumber(OrZero(m.marketShare)) = NaN
  THEN NaN
  ELSE Number((ToNumber(OrZero(m.marketSize)).n * ToNumber(OrZero(m.marketShare)).n)
                \div 10000)

MarketRest(m1, m2) ==
  IF \E v \in {m1.marketSize, m1.marketShare, m2.marketShare} : ToNumber(OrZero(v)) = NaN
  THEN NaN
  ELSE Number((ToNumber(OrZero(m1.marketSize)).n
                 * (10000 - (ToNumber(OrZero(m1.marketShare)).n
                               + ToNumber(OrZero(m2.marketShare)).n))) \div 10000)

MarketChart(metrics, names) ==
  IF \A i \in 1..2 : /\ metrics[names[i]].marketShare # JNull
                     /\ metrics[names[i]].marketSize # JNull
  THEN ChartOf("pie",
         << Point(1, names[1], "marketShare", MarketSlice(metrics[names[1]])),
            Point(2, names[2], "marketShare", MarketSlice(metrics[names[2]])),
            Point(0, <<>>, "marketSize",
                  MarketRest(metrics[names[1]], metrics[names[2]])) >>)
  ELSE Placeholder("No market share data available")

createCharts(metrics, names) ==
  [slot \in ChartSlots |->
     IF slot \notin MountedCanvases THEN NoChart
     ELSE CASE slot = "funding" ->
                 BarChart(metrics, names, "funding", "No funding data available")
            [] slot = "valuation" ->
                 BarChart(metrics, names, "valuation", "No valuation data available")
            [] slot = "growth" ->
                 BarChart(metrics, names, "growthRate", "No growth rate data available")
            [] slot = "radar" -> RadarChart(metrics, names)
            [] slot = "market" -> MarketChart(metrics, names)]

\* ---- the inputs of the page ----
\* A value object holding the given metric fields, each with the value v.
PresentData(present, v) ==
  [f \in MetricFields \cup UnitFields |->
     IF f \in present THEN Number(v)
     ELSE IF f \in UnitFields THEN Word("million") ELSE Undefined]

CompareData ==
  { PresentData(MetricFields, Num(2, 0)),
    PresentData({}, Num(2, 0)),
    PresentData({"funding"}, Num(1, 50)),
    PresentData({"growthRate", "marketShare", "marketSize"}, Num(0, 50)) }

\* The JSON objects the oracle may write: at most two keys.
JsonObjects ==
  UNION {[keys -> CompareData] :
           keys \in {K \in SUBSET NamePool : Cardinality(K) <= 2}}

\* useState(null) for the metrics.
NoMetrics == <<>>

IdleCompare ==
  /\ cpc = "text"
  /\ cNames = <<>>
  /\ cText = <<>>
  /\ cJson = <<>>
  /\ cOutcome = NULL
  /\ cMetrics = NoMetrics
  /\ cTable = <<>>
  /\ cCharts = <<>>

\* The metrics effect (page.tsx lines 387-394): with a comparison result
\* and two names, extract the metrics and store them.
ExtractMetrics ==
  /\ CompareStep
  /\ cpc = "text"
  /\ Len(cNames) = 2
  /\ LET r == extractMetricsFromText(cText, cJson, cNames)
     IN /\ cOutcome' = IF r.threw THEN "threw" ELSE "returned"
        /\ cMetrics' = r.metrics
  /\ cpc' = "extracted"
  /\ UNCHANGED <<cNames, cText, cJson, cTable, cCharts>>

\* The render that follows setMetrics: the canvases and the table appear.
RenderTable ==
  /\ CompareStep
  /\ cpc = "extracted"
  /\ cMetrics # NoMetrics
  /\ cTable' = metricsTable(cMetrics, cNames)
  /\ cpc' = "rendered"
  /\ UNCHANGED <<cNames, cText, cJson, cOutcome, cMetrics, cCharts>>

\* The chart effect (page.tsx lines 397-414): with metrics and two names,
\* redraw every chart.
CreateCharts ==
  /\ CompareStep
  /\ cpc = "rendered"
  /\ cMetrics # NoMetrics
  /\ Len(cNames) = 2
  /\ cCharts' = createCharts(cMetrics, cNames)
  /\ cpc' = "charted"
  /\ UNCHANGED <<cNames, cText, cJson, cOutcome, cMetrics, cTable>>

NextCompare ==
  \/ ExtractMetrics
  \/ RenderTable
  \/ CreateCharts

(***************************************************************************)
(* parseContentIntoSections: the analyze route's section parser            *)
(***************************************************************************)
\* The oracle text is a sequence of pieces.  A heading word stands for any
\* occurrence of that word (the patterns are case-insensitive and match
\* inside longer words); "w" is text no pattern matches; "sp" and "nl" are
\* one whitespace character each; "2." is a numeral with its dot; "-" is a
\* dash, "*" an asterisk, ":" a colon and "cite" a marker like [1].
HeadingWords == {"Overview", "Market", "Competition", "Competitive", "Business",
                 "Team", "Leadership", "Risks", "Investment"}
Numerals_Seq == <<"1.", "2.", "3.", "4.", "5.", "6.", "7.">>
Numerals == {Numerals_Seq[i] : i \in 1..7}

IsWs(t) == t \in {"sp", "nl"}

\* A pattern (K1|K2|n\.?\s*K): the words that match on their own, and the
\* numeral that matches when followed by the numbered word.
Pattern(words, num, numWord) == [words |-> words, num |-> num, numWord |-> numWord]

OverviewRe    == Pattern({"Overview"}, "1.", "Overview")
MarketRe      == Pattern({"Market"}, "2.", "Market")
CompetitionRe == Pattern({"Competition", "Competitive"}, "3.", "Competition")
BusinessRe    == Pattern({"Business"}, "4.", "Business")
TeamRe        == Pattern({"Team", "Leadership"}, "5.", "Team")
RisksRe       == Pattern({"Risks"}, "6.", "Risks")
InvestmentRe  == Pattern({"Investment"}, "7.", "Investment")
\* /$/ as the next-section pattern: only the end of the text.
EndRe         == Pattern({}, "", "")

\* The index where a match of re that starts at p ends, 0 if none starts there.
MatchEnd(text, p, re) ==
  IF text[p] \in re.words THEN p
  ELSE IF text[p] = re.num
  THEN LET ends == {q \in (p + 1)..Len(text) :
                      /\ text[q] = re.numWord
                      /\ \A j \in (p + 1)..(q - 1) : IsWs(text[j])}
       IN IF ends = {} THEN 0 ELSE CHOOSE q \in ends : TRUE
  ELSE 0

\* The leftmost index >= from where re matches, 0 if there is none.
FirstMatch(text, re, from) ==
  LET starts == {p \in from..Len(text) : MatchEnd(text, p, re) > 0}
  IN IF starts = {} THEN 0 ELSE CHOOSE p \in starts : \A q \in starts : p <= q

RECURSIVE TrimWsStart(_)
TrimWsStart(s) == IF s # <<>> /\ IsWs(Head(s)) THEN TrimWsStart(Tail(s)) ELSE s

RECURSIVE TrimWsEnd(_)
TrimWsEnd(s) ==
  IF s # <<>> /\ IsWs(s[Len(s)]) THEN TrimWsEnd(SubSeq(s, 1, Len(s) - 1)) ELSE s

\* String.prototype.trim on a text.
TrimWs(s) == TrimWsEnd(TrimWsStart(s))

\* The [:\s]* after the header.
RECURSIVE DropColonsAndWs(_)
DropColonsAndWs(s) ==
  IF s # <<>> /\ (IsWs(Head(s)) \/ Head(s) = ":") THEN DropColonsAndWs(Tail(s)) ELSE s

\* extractSection(content, sectionRegex, nextSectionRegex): from the
\* leftmost match of the section pattern, lazily up to the next match of the
\* next-section pattern or the end; then the header is removed and the rest
\* trimmed.  '' when the section pattern matches nowhere.
extractSection(content, sectionRe, nextRe) ==
  LET p == FirstMatch(content, sectionRe, 1)
  IN IF p = 0 THEN <<>>
     ELSE LET e == MatchEnd(content, p, sectionRe)
              n == FirstMatch(content, nextRe, e + 1)
              r == IF n = 0 THEN Len(content) + 1 ELSE n
          IN TrimWs(DropColonsAndWs(SubSeq(content, e + 1, r - 1)))

\* ---- formatBulletPoints ----
\* The first index >= i that holds no whitespace (Len(s) + 1 if none).
SkipWs(s, i) ==
  LET rest == {j \in i..Len(s) : ~IsWs(s[j])}
  IN IF rest = {} THEN Len(s) + 1 ELSE CHOOSE j \in rest : \A k \in rest : j <= k

\* s.replace(/^\s*<marker>\s*/gm, '• ') from index i on.
RECURSIVE ReplaceLineStart(_, _, _)
ReplaceLineStart(s, i, markers) ==
  IF i > Len(s) THEN <<>>
  ELSE LET j == SkipWs(s, i)
       IN IF (i = 1 \/ s[i - 1] = "nl") /\ j <= Len(s) /\ s[j] \in markers
          THEN <<"bullet", "sp">> \o ReplaceLineStart(s, SkipWs(s, j + 1), markers)
          ELSE <<s[i]>> \o ReplaceLineStart(s, i + 1, markers)

\* s.replace(/\s{2,}/g, ' ')
RECURSIVE CollapseWs(_)
CollapseWs(s) ==
  IF s = <<>> THEN <<>>
  ELSE IF IsWs(s[1]) /\ Len(s) >= 2 /\ IsWs(s[2])
  THEN <<"sp">> \o CollapseWs(SubSeq(s, SkipWs(s, 1), Len(s)))
  ELSE <<s[1]>> \o CollapseWs(Tail(s))

\* s.replace(/•/g, '\n• ')
RECURSIVE BulletOnNewLine(_)
BulletOnNewLine(s) ==
  IF s = <<>> THEN <<>>
  ELSE (IF s[1] = "bullet" THEN <<"nl", "bullet", "sp">> ELSE <<s[1]>>)
         \o BulletOnNewLine(Tail(s))

\* formatBulletPoints(content), lines 187-211, in the order of its replaces.
formatBulletPoints(content) ==
  IF content = <<>> THEN <<>>
  ELSE LET trimmed  == TrimWs(content)
           numbered == ReplaceLineStart(trimmed, 1, Numerals)
           dashed   == ReplaceLineStart(numbered, 1, {"-"})
           starred  == ReplaceLineStart(dashed, 1, {"*"})
           uncited  == SelectSeq(starred, LAMBDA t : t # "cite")
           spaced   == CollapseWs(uncited)
           lined    == BulletOnNewLine(spaced)
       IN IF lined # <<>> /\ lined[1] = "nl" THEN Tail(lined) ELSE lined

\* The section keys with their section and next-section patterns, in the
\* order of the object literal (lines 141-160).
SectionPatterns ==
  << [key |-> "overview",             re |-> OverviewRe,    next |-> MarketRe],
     [key |-> "marketOpportunity",    re |-> MarketRe,      next |-> CompetitionRe],
     [key |-> "competitiveLandscape", re |-> CompetitionRe, next |-> BusinessRe],
     [key |-> "businessModel",        re |-> BusinessRe,    next |-> TeamRe],
     [key |-> "teamAssessment",       re |-> TeamRe,        next |-> RisksRe],
     [key |-> "risksAndChallenges",   re |-> RisksRe,       next |-> InvestmentRe],
     [key |-> "investmentPotential",  re |-> InvestmentRe,  next |-> EndRe] >>

\* Faulty variant of SectionValue: a section that is not found is null.
SectionValue_Null(content, pat) ==
  IF FirstMatch(content, pat.re, 1) = 0 THEN JNull
  ELSE Str(formatBulletPoints(extractSection(content, pat.re, pat.next)))

\* One entry of the result: the formatted section text, a string.
SectionValue(content, pat) ==
  Str(formatBulletPoints(extractSection(content, pat.re, pat.next)))

\* parseContentIntoSections(content).  Nothing inside the try block throws
\* (match, replace and trim on strings), so the catch block is never taken.
parseContentIntoSections(content) ==
  [threw |-> FALSE,
   sections |-> [i \in 1..Len(SectionPatterns) |->
                   [key |-> SectionPatterns[i].key,
                    value |-> SectionValue(content, SectionPatterns[i])]]]

\* ---- the texts the parser is run on ----
\* Short texts over the pieces that interact: section words, plain text,
\* whitespace, bullet markers, a numeral, a colon and a citation marker.
TextPieces == {"Overview", "Market", "Team", "w", "sp", "nl", "-", "2.", ":", "cite"}

ShortTexts == UNION {[1..n -> TextPieces] : n \in 0..MaxTextLen}

\* The seven canonical headings, in canonical order: "Overview", "Market
\* Opportunity", "Competitive Landscape", "Business Model", "Team
\* Assessment", "Risks and Challenges", "Investment Potential".
CanonicalHeadings ==
  << <<"Overview">>, <<"Market", "sp", "w">>, <<"Competitive", "sp", "w">>,
     <<"Business", "sp", "w">>, <<"Team", "sp", "w">>,
     <<"Risks", "sp", "w", "sp", "w">>, <<"Investment", "sp", "w">> >>

\* Phrases of heading words, as they occur in running text ("team",
\* "competitive business", "market risks").
RECURSIVE JoinWords(_)
JoinWords(ws) ==
  IF Len(ws) <= 1 THEN ws ELSE <<ws[1], "sp">> \o JoinWords(Tail(ws))

KeywordPhrases ==
  {JoinWords(ws) : ws \in UNION {[1..n -> HeadingWords] : n \in 1..MaxPhraseLen}}

\* One bullet line: "- w" or "- <phrase> w".
BulletLine(phrase) ==
  <<"-", "sp">> \o (IF phrase = <<>> THEN <<>> ELSE phrase \o <<"sp">>) \o <<"w", "nl">>

HeadingLine(i, numbered) ==
  (IF numbered THEN <<Numerals_Seq[i], "sp">> ELSE <<>>) \o CanonicalHeadings[i] \o <<"nl">>

RECURSIVE Concat(_)
Concat(ss) == IF ss = <<>> THEN <<>> ELSE Head(ss) \o Concat(Tail(ss))

\* A text of the seven canonical headings in order, each followed by one
\* bullet line; the bullet under heading k holds the phrase.
CanonicalText(numbered, k, phrase) ==
  Concat([i \in 1..7 |->
            HeadingLine(i, numbered) \o BulletLine(IF i = k THEN phrase ELSE <<>>)])

CanonicalTexts ==
  {CanonicalText(numbered, k, phrase) :
     numbered \in BOOLEAN, k \in 1..7, phrase \in KeywordPhrases \cup {<<>>}}

\* Texts with a heading no pattern matches, "Funding", and a bullet "x"
\* under it, alone or after an Overview section, before a Market section
\* or at the end.
UnmatchedHeadingTexts ==
  {before \o <<"Funding", "nl", "-", "sp", "x", "nl">> \o after :
     before \in {<<>>, <<"Overview", "nl", "-", "sp", "w", "nl">>},
     after \in {<<>>, <<"Market", "sp", "w", "nl", "-", "sp", "w", "nl">>}}

IdleSections ==
  /\ spc = "input"
  /\ secContent = <<>>
  /\ secResult = <<>>
  /\ secThrew = FALSE

\* const sections = parseContentIntoSections(content)
ParseContentIntoSections ==
  /\ SectionsStep
  /\ spc = "input"
  /\ LET r == parseContentIntoSections(secContent)
     IN /\ secResult' = r.sections
        /\ secThrew' = r.threw
  /\ spc' = "parsed"
  /\ UNCHANGED secContent

NextSections ==
  \/ ParseContentIntoSections

(***************************************************************************)
(* extractDataFromAnalysis: the Home page's heuristic extraction           *)
(* (unnamed/part_000 lines 98-305)                                         *)
(***************************************************************************)
\* The analysis text is a sequence of tokens: words, punctuation marks
\* written after the word they follow, amounts like '$5 billion' as one
\* token, "nl" for a line break standing in place of the space, "##" and
\* "-" for heading and bullet marks.  The patterns are written over the
\* same tokens, one space between two tokens.
MaxPhrases == 2

MoneyTokens == {"$120 million", "$5 billion", "$2 billion", "$9 million"}
YearTokens == {"2012"}
CountTokens == {"50"}
NameTokens == {"Acme", "Beta", "Gamma", "Delta", "Eta", "Zeta", "Stripe"}

\* The i flag: a capitalised word matches its lower-case literal.
LowerToken(t) ==
  CASE t = "Founded" -> "founded"
    [] t = "Competitive" -> "competitive"
    [] t = "Landscape" -> "landscape"
    [] t = "Market" -> "market"
    [] t = "Opportunity" -> "opportunity"
    [] t = "The" -> "the"
    [] OTHER -> t

\* The elements of a pattern: one of several word sequences, possibly
\* optional; a lazy run of characters (.*? stops at a line break, [^.]*? at
\* a full stop); a captured token; the captured competitor list.
Alt(alts) == [t |-> "alt", alts |-> alts, opt |-> FALSE, w |-> {}]
Opt(alts) == [t |-> "alt", alts |-> alts, opt |-> TRUE, w |-> {}]
Lit(words) == Alt({<<x>> : x \in words})
AnyLazy == [t |-> "any", alts |-> {}, opt |-> FALSE, w |-> {"nl"}]
NoDotLazy == [t |-> "any", alts |-> {}, opt |-> FALSE, w |-> {"."}]
Cap(tokens) == [t |-> "cap", alts |-> {}, opt |-> FALSE, w |-> tokens]
CapList == [t |-> "list", alts |-> {}, opt |-> FALSE, w |-> {}]

\* (\$\d+(?:\.\d+)?(?:\s*[bmtk]illion|\s*[bmtk]n)) and (\d{4}) and
\* (\d+(?:[,\s]\d+)?)
Money == Cap(MoneyTokens)
Year == Cap(YearTokens)
Digits1 == Cap(YearTokens \cup CountTokens)

\* (?:approximately |about |around |estimated at )? and
\* (?:over |approximately |about |~)?
Roughly == Opt({<<"approximately">>, <<"about">>, <<"around">>, <<"estimated", "at">>})
Over == Opt({<<"over">>, <<"approximately">>, <<"about">>, <<"~">>})
\* (?:employees|team members|staff)
Staff == Alt({<<"employees">>, <<"team", "members">>, <<"staff">>})

\* Whether the word sequence a stands in text at p.
StandsAt(text, p, a) ==
  /\ p + Len(a) - 1 <= Len(text)
  /\ \A k \in 1..Len(a) : LowerToken(text[p + k - 1]) = a[k]

\* ---- the competitor list ((?:[A-Za-z0-9\s]+(?:,|and|\.|;)[\s]*)+) ----
\* The tokens made of letters, digits and white space, and the separators.
ListSeparators == {",", "and", ".", ";"}
InListClass(t) == t \notin MoneyTokens \cup {"##", "-", "(TAM)", "~"}

\* The last index of the run of list tokens that starts at p.
RECURSIVE RunEnd(_, _)
RunEnd(text, p) ==
  IF p <= Len(text) /\ InListClass(text[p]) THEN RunEnd(text, p + 1) ELSE p - 1

\* Where the list captured from p ends: greedily at the last separator of
\* the run, with at least one character before the first separator; 0 when
\* no list starts at p.
CaptureEnd(text, p) ==
  IF p > Len(text) \/ text[p] \in {",", ".", ";"} THEN 0
  ELSE LET seps == {s \in (p + 1)..RunEnd(text, p) : text[s] \in ListSeparators}
       IN IF seps = {} THEN 0 ELSE CHOOSE s \in seps : \A r \in seps : r <= s

\* The index of the captured token when pat[i..] matches text from p, with
\* cap the capture so far; 0 when it does not match.  Alternatives are
\* tried in the engine's order: an optional group first with its words,
\* a lazy run first with nothing.
RECURSIVE MatchFrom(_, _, _, _, _)
MatchFrom(text, p, pat, i, cap) ==
  IF i > Len(pat) THEN cap
  ELSE LET el == pat[i]
       IN CASE el.t = "alt" ->
                 LET hits == {MatchFrom(text, p + Len(a), pat, i + 1, cap) :
                                a \in {b \in el.alts : StandsAt(text, p, b)}} \ {0}
                 IN IF hits # {} THEN CHOOSE c \in hits : \A d \in hits : c <= d
                    ELSE IF el.opt THEN MatchFrom(text, p, pat, i + 1, cap)
                    ELSE 0
            [] el.t = "cap" ->
                 IF p <= Len(text) /\ text[p] \in el.w
                 THEN MatchFrom(text, p + 1, pat, i + 1, p)
                 ELSE 0
            [] el.t = "list" ->
                 IF CaptureEnd(text, p) > 0 THEN p ELSE 0
            [] el.t = "any" ->
                 LET now == MatchFrom(text, p, pat, i + 1, cap)
                 IN IF now # 0 THEN now
                    ELSE IF p <= Len(text) /\ text[p] \notin el.w
                    THEN MatchFrom(text, p + 1, pat, i, cap)
                    ELSE 0

\* String.prototype.match(pattern): the capture of the leftmost match, as
\* the index of the captured token; 0 for null.
Match(text, pat) ==
  LET starts == {p \in 1..Len(text) : MatchFrom(text, p, pat, 1, 0) # 0}
  IN IF starts = {} THEN 0
     ELSE MatchFrom(text, CHOOSE p \in starts : \A q \in starts : p <= q, pat, 1, 0)

\* lines 116-127
marketSizePatterns ==
  << <<Lit({"market"}), Lit({"size"}), Lit({"is", "of"}), Roughly, Money>>,
     <<Lit({"total"}), Lit({"addressable"}), Lit({"market"}), Opt({<<"(TAM)">>}),
       Lit({"is", "of"}), Roughly, Money>>,
     <<Lit({"tam"}), Lit({"is", "of"}), Roughly, Money>>,
     <<Money, Alt({<<"market">>, <<"tam">>, <<"addressable", "market">>})>>,
     <<Lit({"market"}), Lit({"size", "opportunity"}), AnyLazy, Money>>,
     <<Lit({"market"}), Alt({<<"is">>, <<"of">>, <<"worth">>, <<"valued", "at">>}),
       Roughly, Money>>,
     <<Lit({"market"}), AnyLazy, Money>>,
     <<Lit({"worth"}), Roughly, Money>>,
     <<Lit({"valued"}), Lit({"at"}), Roughly, Money>>,
     <<Lit({"estimated"}),
       Opt({<<"to", "be">>, <<"at">>, <<"around">>, <<"approximately">>}), Money>> >>

\* lines 155-165
foundingYearPatterns ==
  << <<Lit({"founded"}), Lit({"in"}), Year>>,
     <<Lit({"founded"}), Year>>,
     <<Lit({"established"}), Lit({"in"}), Year>>,
     <<Lit({"launched"}), Lit({"in"}), Year>>,
     <<Lit({"started"}), Lit({"in"}), Year>>,
     <<Lit({"inception"}), Lit({"in"}), Year>>,
     <<Lit({"founded"}), AnyLazy, Lit({"in"}), Year>>,
     <<Lit({"began"}), AnyLazy, Lit({"in"}), Year>>,
     <<Lit({"created"}), Lit({"in"}), Year>> >>

\* lines 177-187
employeePatterns ==
  << <<Digits1, Staff>>,
     <<Lit({"team"}), Lit({"of"}), Digits1>>,
     <<Lit({"workforce"}), Lit({"of"}), Digits1>>,
     <<Lit({"has"}), Digits1, Staff>>,
     <<Lit({"currently"}), Lit({"has"}), Digits1, Staff>>,
     <<Lit({"employs"}), Digits1>>,
     <<Lit({"approximately"}), Digits1, Staff>>,
     <<Lit({"about"}), Digits1, Staff>>,
     <<Lit({"around"}), Digits1, Staff>> >>

\* lines 199-207
fundingPatterns ==
  << <<Lit({"raised"}), Over, Money>>,
     <<Lit({"funding"}), Lit({"of"}), Over, Money>>,
     <<Lit({"secured"}), Over, Money>>,
     <<Lit({"total"}), Lit({"funding"}), Lit({"of"}), Over, Money>>,
     <<Lit({"has"}), Lit({"raised"}), Over, Money>>,
     <<Lit({"raised"}), AnyLazy, Money>>,
     <<Lit({"funding"}), AnyLazy, Money>> >>

\* lines 219-225
valuationPatterns ==
  << <<Lit({"valued"}), Lit({"at"}), Over, Money>>,
     <<Lit({"valuation"}), Lit({"of"}), Over, Money>>,
     <<Lit({"worth"}), Over, Money>>,
     <<Lit({"currently"}), Lit({"valued"}), Lit({"at"}), Over, Money>>,
     <<Lit({"valuation"}), AnyLazy, Money>> >>

\* lines 237-241
revenuePatterns ==
  << <<Lit({"annual"}), Lit({"revenue"}), Lit({"is"}), Lit({"approximately"}), Money>>,
     <<Lit({"revenue"}), Lit({"estimate"}), Lit({"is"}), Lit({"approximately"}), Money>>,
     <<Lit({"revenue"}), AnyLazy, Money>> >>

\* lines 252-261
competitorPatterns ==
  << <<Lit({"competitors"}), Lit({"include"}), CapList>>,
     <<Lit({"competes"}), Lit({"with"}), CapList>>,
     <<Lit({"competitors"}), Lit({"are"}), CapList>>,
     <<Lit({"competitive"}), Lit({"landscape"}), NoDotLazy, CapList>>,
     <<Lit({"main"}), Lit({"competitors"}), NoDotLazy, CapList>>,
     <<Lit({"direct"}), Lit({"competitors"}), NoDotLazy, CapList>>,
     <<Lit({"competitors"}), NoDotLazy, CapList>>,
     <<Lit({"competing"}), Lit({"with"}), NoDotLazy, CapList>> >>

\* The for loop with break (lines 131-139 and its five copies): the
\* capture of the first pattern of the list that matches; 0 when none does.
FirstPatternCapture_Last(text, patterns) ==
  LET hits == {i \in 1..Len(patterns) : Match(text, patterns[i]) # 0}
  IN IF hits = {} THEN 0
     ELSE Match(text, patterns[CHOOSE i \in hits : \A j \in hits : j <= i])

FirstPatternCapture(text, patterns) ==
  LET hits == {i \in 1..Len(patterns) : Match(text, patterns[i]) # 0}
  IN IF hits = {} THEN 0
     ELSE Match(text, patterns[CHOOSE i \in hits : \A j \in hits : i <= j])

\* /## H1 H2([\s\S]*?)(?:##|$)/i : the text after the first such heading,
\* up to the next "##" or the end; <<>> also when there is no heading.
SectionAfter(text, h1, h2) ==
  LET heads == {p \in 1..Len(text) : text[p] = "##" /\ StandsAt(text, p + 1, <<h1, h2>>)}
  IN IF heads = {} THEN <<>>
     ELSE LET p == CHOOSE h \in heads : \A g \in heads : h <= g
              nexts == {q \in (p + 3)..Len(text) : text[q] = "##"}
              stop == IF nexts = {} THEN Len(text) + 1
                      ELSE CHOOSE q \in nexts : \A r \in nexts : q <= r
          IN SubSeq(text, p + 3, stop - 1)

\* lines 142-152: the first amount of the Market Opportunity section.
MarketSectionAmount(text) ==
  LET section == SectionAfter(text, "market", "opportunity")
      at == {p \in 1..Len(section) : section[p] \in MoneyTokens}
  IN IF at = {} THEN JNull
     ELSE Word(section[CHOOSE p \in at : \A q \in at : p <= q])

\* A captured token as the string stored, null when nothing was captured.
Captured(text, p) == IF p = 0 THEN JNull ELSE Word(text[p])

\* parseInt of four digits.
YearValue(t) == CASE t = "2012" -> 2012 [] OTHER -> 0

\* .split(/,|and|;/): the pieces between the split marks, in order.
RECURSIVE SplitList(_, _)
SplitList(tokens, piece) ==
  IF tokens = <<>> THEN <<piece>>
  ELSE IF Head(tokens) \in {",", "and", ";"}
  THEN <<piece>> \o SplitList(Tail(tokens), <<>>)
  ELSE SplitList(Tail(tokens), Append(piece, Head(tokens)))

RECURSIVE TrimNl(_)
TrimNl(s) ==
  IF s # <<>> /\ Head(s) = "nl" THEN TrimNl(Tail(s))
  ELSE IF s # <<>> /\ s[Len(s)] = "nl" THEN TrimNl(SubSeq(s, 1, Len(s) - 1))
  ELSE s

RECURSIVE MapTrim(_)
MapTrim(pieces) ==
  IF pieces = <<>> THEN <<>> ELSE <<TrimNl(Head(pieces))>> \o MapTrim(Tail(pieces))

\* The filter of lines 268: not empty, longer than one character (a lone
\* full stop is the only one-character piece), not a lead-in phrase.
KeepPiece(piece) ==
  /\ piece # <<>>
  /\ piece # <<".">>
  /\ piece \notin {<<"such", "as">>, <<"including">>, <<"like">>}

\* lines 265-268: the names in the list captured at p.
potentialCompetitors(text, p) ==
  SelectSeq(MapTrim(SplitList(SubSeq(text, p, CaptureEnd(text, p)), <<>>)), KeepPiece)

\* lines 263-276: the first pattern whose list leaves a name decides.
RECURSIVE PatternCompetitors(_, _)
PatternCompetitors(text, i) ==
  IF i > Len(competitorPatterns) THEN <<>>
  ELSE LET p == Match(text, competitorPatterns[i])
       IN IF p # 0 /\ potentialCompetitors(text, p) # <<>>
          THEN potentialCompetitors(text, p)
          ELSE PatternCompetitors(text, i + 1)

\* /\b([A-Z][a-z]+(?:\s[A-Z][a-z]+)*)\b/g : a capitalised word, then more
\* of them each after one white-space character.
CapitalisedTokens == NameTokens \cup {"The", "Founded", "Competitive", "Landscape",
                                      "Market", "Opportunity"}

RECURSIVE NameEnd(_, _)
NameEnd(s, p) ==
  IF p + 1 <= Len(s) /\ s[p + 1] \in CapitalisedTokens THEN NameEnd(s, p + 1)
  ELSE IF p + 2 <= Len(s) /\ s[p + 1] = "nl" /\ s[p + 2] \in CapitalisedTokens
  THEN NameEnd(s, p + 2)
  ELSE p

RECURSIVE CompanyNames(_, _)
CompanyNames(s, p) ==
  IF p > Len(s) THEN <<>>
  ELSE IF s[p] \in CapitalisedTokens
  THEN <<SubSeq(s, p, NameEnd(s, p))>> \o CompanyNames(s, NameEnd(s, p) + 1)
  ELSE CompanyNames(s, p + 1)

\* line 290
commonWords == {"The", "This", "These", "Their", "They", "It", "Its", "In", "On",
                "At", "By", "For", "With", "About", "Against", "Between", "Into",
                "Through"}

FirstFive(s) == SubSeq(s, 1, IF Len(s) < 5 THEN Len(s) ELSE 5)

\* lines 279-301: the capitalised names of the Competitive Landscape
\* section, without the common words and the search term, five at most.
SectionCompetitors(text, searchTerm) ==
  LET section == SectionAfter(text, "competitive", "landscape")
      IsCompany(name) == ~(Len(name) = 1 /\ name[1] \in commonWords) /\ name # <<searchTerm>>
  IN FirstFive(SelectSeq(CompanyNames(section, 1), IsCompany))

NoData ==
  [marketSize |-> JNull, foundingYear |-> JNull, employeeCount |-> JNull,
   fundingAmount |-> JNull, valuation |-> JNull, revenueEstimate |-> JNull,
   competitors |-> <<>>]

\* extractDataFromAnalysis (lines 98-305).  No statement of it can raise on
\* a string: match, split, trim, filter, replace and parseInt are total.
extractDataFromAnalysis(text, searchTerm) ==
  IF text = <<>> THEN [threw |-> FALSE, data |-> NoData]
  ELSE LET size == Captured(text, FirstPatternCapture(text, marketSizePatterns))
           year == FirstPatternCapture(text, foundingYearPatterns)
           listed == PatternCompetitors(text, 1)
       IN [threw |-> FALSE,
           data |->
             [marketSize |-> IF size = JNull THEN MarketSectionAmount(text) ELSE size,
              foundingYear |-> IF year = 0 THEN JNull ELSE Number(YearValue(text[year])),
              employeeCount |-> Captured(text, FirstPatternCapture(text, employeePatterns)),
              fundingAmount |-> Captured(text, FirstPatternCapture(text, fundingPatterns)),
              valuation |-> Captured(text, FirstPatternCapture(text, valuationPatterns)),
              revenueEstimate |-> Captured(text, FirstPatternCapture(text, revenuePatterns)),
              competitors |-> IF listed = <<>> THEN SectionCompetitors(text, searchTerm)
                              ELSE listed]]

\* The sentences and sections the analysis texts are made of.  Sentences
\* end with a full stop; "Landscape" occurs only in the heading.
Phrases ==
  { <<"Founded", "in", "2012", ".">>,
    <<"has", "raised", "$120 million", "in", "funding", ".">>,
    <<"market", "size", "is", "approximately", "$5 billion", ".">>,
    <<"valued", "at", "$2 billion", ".">>,
    <<"team", "of", "50", "employees", ".">>,
    <<"revenue", "of", "$9 million", ".">>,
    <<"competitors", "include", "Acme", ",", "Acme", "and", "Beta", ".">>,
    <<"competes", "with", "Stripe", ",", "Beta", ",", "Gamma", ",", "Delta", ",",
      "Eta", ",", "Zeta", ".">>,
    <<"##", "Competitive", "Landscape", "nl", "-", "Acme", "nl", "-", "The", "nl",
      "-", "Stripe", "nl", "-", "Acme">>,
    <<"##", "Market", "Opportunity", "nl", "-", "$5 billion">> }

RECURSIVE PhraseTexts(_)
PhraseTexts(n) ==
  IF n = 0 THEN {<<>>}
  ELSE PhraseTexts(n - 1) \cup {t \o p : t \in PhraseTexts(n - 1), p \in Phrases}

SearchTerms == {"Stripe", "Acme"}

IdleExtract ==
  /\ epc = "input"
  /\ exText = <<>>
  /\ exSearchTerm = "Stripe"
  /\ exData = NoData
  /\ exThrew = FALSE

ExtractDataFromAnalysis ==
  /\ ExtractStep
  /\ epc = "input"
  /\ LET r == extractDataFromAnalysis(exText, exSearchTerm)
     IN /\ exData' = r.data
        /\ exThrew' = r.threw
  /\ epc' = "extracted"
  /\ UNCHANGED <<exText, exSearchTerm>>

(***************************************************************************)
(* The dashboard (api/perplexity/route.ts lines 234-294): expanding a     *)
(* startup row and fetching its analyses                                   *)
(***************************************************************************)
MaxRequests == 3

\* The startups listed on the dashboard.
StartupIds == {"s1", "s2", "s3"}

\* How GET /api/analyses may settle (lines 271-284): a body with success
\* true and the list, a body without success, or a rejected fetch.
FetchOutcomes == {"success", "failure", "network"}

IdleDash ==
  /\ dExpanded = NULL
  /\ dAnalyses = [id \in StartupIds |-> FALSE]
  /\ dInFlight = [id \in StartupIds |-> 0]
  /\ dRequests = [id \in StartupIds |-> 0]

\* if (!analyses[startupId]) (line 290): no entry stored for the startup.
NeedsFetch(analyses, startupId) == ~analyses[startupId]

\* toggleExpandStartup (lines 285-294), with the synchronous part of
\* fetchAnalysesForStartup (line 271): the request goes out.
ToggleExpandStartup(startupId) ==
  /\ DashStep
  /\ IF dExpanded = startupId
     THEN /\ dExpanded' = NULL
          /\ UNCHANGED <<dInFlight, dRequests>>
     ELSE /\ dExpanded' = startupId
          /\ IF NeedsFetch(dAnalyses, startupId)
             THEN /\ dRequests[startupId] < MaxRequests
                  /\ dRequests' = [dRequests EXCEPT ![startupId] = @ + 1]
                  /\ dInFlight' = [dInFlight EXCEPT ![startupId] = @ + 1]
             ELSE UNCHANGED <<dInFlight, dRequests>>
  /\ UNCHANGED dAnalyses

\* The rest of fetchAnalysesForStartup (lines 272-283), once its fetch has
\* settled: the list is stored only for a body with success true.
FetchAnalysesSettles(startupId, outcome) ==
  /\ DashStep
  /\ dInFlight[startupId] > 0
  /\ dInFlight' = [dInFlight EXCEPT ![startupId] = @ - 1]
  /\ dAnalyses' = IF outcome = "success"
                  THEN [dAnalyses EXCEPT ![startupId] = TRUE]
                  ELSE dAnalyses
  /\ UNCHANGED <<dExpanded, dRequests>>

ToggleExpandStartupStep == \E startupId \in StartupIds : ToggleExpandStartup(startupId)
FetchAnalysesSettlesStep ==
  \E startupId \in StartupIds : \E outcome \in FetchOutcomes :
    FetchAnalysesSettles(startupId, outcome)

(***************************************************************************)
(* Citation markers in a content line (page.tsx lines 248-258;            *)
(* unnamed/part_000 lines 743-753)                                         *)
(***************************************************************************)
MaxLineLen == 2
MaxCitations == 2
MaxMarkerDigits == 2

\* A line is a sequence of tokens: a marker [digits], a word, or a
\* bracket without digits, which /\[(\d+)\]/ does not match.
CiteDigits == {"0", "1", "2", "3"}
CiteDigitVal(c) == CASE c = "0" -> 0 [] c = "1" -> 1 [] c = "2" -> 2 [] c = "3" -> 3

Marker(digits) == [t |-> "marker", digits |-> digits]
PlainToken(w) == [t |-> "plain", digits |-> <<w>>]

RECURSIVE DigitStrings(_)
DigitStrings(n) ==
  IF n = 0 THEN {<<>>}
  ELSE DigitStrings(n - 1) \cup
       {Append(s, d) : s \in DigitStrings(n - 1), d \in CiteDigits}

LineTokens ==
  {Marker(ds) : ds \in DigitStrings(MaxMarkerDigits) \ {<<>>}} \cup
  {PlainToken("word"), PlainToken("[x]")}

RECURSIVE SeqsUpTo(_, _)
SeqsUpTo(S, n) ==
  IF n = 0 THEN {<<>>}
  ELSE SeqsUpTo(S, n - 1) \cup {Append(s, x) : s \in SeqsUpTo(S, n - 1), x \in S}

\* The citations the response carries: URLs.
CitationUrls == {"https://a", "https://b"}
CitationLists == SeqsUpTo({Word(u) : u \in CitationUrls}, MaxCitations)

\* parseInt(num) of a string of digits.
RECURSIVE MarkerNumber(_)
MarkerNumber(ds) ==
  IF ds = <<>> THEN 0
  ELSE MarkerNumber(SubSeq(ds, 1, Len(ds) - 1)) * 10 + CiteDigitVal(ds[Len(ds)])

\* Faulty variant of citationIndex: the marker number taken as the index.
citationIndex_ZeroBased(num) == MarkerNumber(num)

\* const citationIndex = parseInt(num) - 1 (line 253)
citationIndex(num) == MarkerNumber(num) - 1

\* citations[i] of a JavaScript array: undefined outside 0..length-1.
ArrayAt(arr, i) == IF i \in 0..(Len(arr) - 1) THEN arr[i + 1] ELSE Undefined

\* The pieces of the processed line.
Literal(tok) == [kind |-> "text", href |-> Undefined, label |-> tok.digits]
Anchor(url, num) == [kind |-> "link", href |-> url, label |-> num]

\* The replace callback (lines 252-258): an anchor to citations[index] when
\* that entry is truthy, the match itself otherwise.
ReplaceMarker(tok, citations) ==
  IF tok.t # "marker" THEN Literal(tok)
  ELSE IF Truthy(ArrayAt(citations, citationIndex(tok.digits)))
  THEN Anchor(ArrayAt(citations, citationIndex(tok.digits)), tok.digits)
  ELSE Literal(tok)

\* processedLine.replace(/\[(\d+)\]/g, ...) over the whole line.
renderCitations(line, citations) ==
  [k \in 1..Len(line) |-> ReplaceMarker(line[k], citations)]

IdleCite ==
  /\ cipc = "input"
  /\ ciLine = <<>>
  /\ ciCitations = <<>>
  /\ ciRendered = <<>>

RenderLine ==
  /\ CiteStep
  /\ cipc = "input"
  /\ ciRendered' = renderCitations(ciLine, ciCitations)
  /\ cipc' = "rendered"
  /\ UNCHANGED <<ciLine, ciCitations>>

(***************************************************************************)
(* The Home page as a component (page.tsx lines 15-90; unnamed/part_000   *)
(* lines 41-96 and 306-587): onSubmit, resetAnalysis, the chart effect.   *)
(***************************************************************************)
MaxHomeSubmits == 2

HomeChartIds == {"marketSizeChart", "competitorsChart"}

\* The analyses the route may answer with.
HomeAnalyses ==
  { <<"Founded", "in", "2012", ".">>,
    <<"market", "size", "is", "approximately", "$5 billion", ".">>,
    <<"competitors", "include", "Acme", ",", "Acme", "and", "Beta", ".">>,
    <<"market", "size", "is", "approximately", "$5 billion", ".",
      "competitors", "include", "Acme", ",", "Acme", "and", "Beta", ".">> }

HomeOutcomes == {"success", "failure", "http", "network"}

\* The canvases renderStartupVisualizations puts in the document
\* (part_000 lines 316-320, 388-391, 602, 726): the result view of a
\* startup search shows a canvas for each chart that has data.
HomeCanvases(result, searchType, term) ==
  IF result = <<>> \/ searchType # "startup" THEN {}
  ELSE LET data == extractDataFromAnalysis(result, term).data
       IN (IF data.marketSize # JNull THEN {"marketSizeChart"} ELSE {}) \cup
          (IF data.competitors # <<>> THEN {"competitorsChart"} ELSE {})

\* cleanupCharts (part_000 lines 412-420): Chart.getChart(id) looks the
\* canvas up in the document by its id and gives the chart on it, so only
\* the charts of canvases still in the document are found and destroyed.
CleanupCharts(attached) == [id \in HomeChartIds |-> 0]

\* A commit that changes which canvases are shown: a chart on a canvas that
\* leaves the document stays alive on the removed element.
AttachedAfter(attached, canvases) ==
  [id \in HomeChartIds |-> IF id \in canvases THEN attached[id] ELSE 0]
DetachedAfter(attached, detached, canvases) ==
  [id \in HomeChartIds |->
     IF id \in canvases THEN detached[id] ELSE detached[id] + attached[id]]

NoCharts == [id \in HomeChartIds |-> 0]

IdleHome ==
  /\ hmPhase = "idle"
  /\ hmUser = TRUE
  /\ hmAnalyzing = FALSE
  /\ hmError = JNull
  /\ hmResult = <<>>
  /\ hmSearchType = "startup"
  /\ hmTerm = "Stripe"
  /\ hmPending = FALSE
  /\ hmCleanup = FALSE
  /\ hmAttached = NoCharts
  /\ hmDetached = NoCharts
  /\ hmSubmits = 0

\* onSubmit without a user (page.tsx lines 41-54).
HomeSignIn(ok) ==
  /\ HomeStep
  /\ hmPhase = "idle"
  /\ ~hmPending
  /\ ~hmUser
  /\ IF ok
     THEN /\ hmUser' = TRUE
          /\ hmError' = JNull
     ELSE /\ hmError' = Word("Please sign in to analyze startups")
          /\ UNCHANGED hmUser
  /\ UNCHANGED <<hmPhase, hmAnalyzing, hmResult, hmSearchType, hmTerm, hmPending,
                 hmCleanup, hmAttached, hmDetached, hmSubmits>>

\* onSubmit with a user, up to the fetch (page.tsx lines 56-70).  The form
\* is shown only while analysisResult is falsy and its button is disabled
\* while isAnalyzing.
HomeSubmit(searchType, term) ==
  /\ HomeStep
  /\ hmPhase = "idle"
  /\ ~hmPending
  /\ hmUser
  /\ ~hmAnalyzing
  /\ hmResult = <<>>
  /\ hmSubmits < MaxHomeSubmits
  /\ hmSubmits' = hmSubmits + 1
  /\ hmPhase' = "fetching"
  /\ hmSearchType' = searchType
  /\ hmTerm' = term
  /\ hmAnalyzing' = TRUE
  /\ hmError' = JNull
  /\ UNCHANGED <<hmUser, hmResult, hmPending, hmCleanup, hmAttached, hmDetached>>

\* The rest of onSubmit (page.tsx lines 72-89), once the fetch has settled;
\* the commit that shows the result puts the canvases in the document.
HomeResponse(outcome, analysis) ==
  /\ HomeStep
  /\ hmPhase = "fetching"
  /\ ~hmPending
  /\ hmPhase' = "idle"
  /\ hmAnalyzing' = FALSE
  /\ IF outcome = "success"
     THEN /\ hmResult' = analysis
          /\ hmPending' = TRUE
          /\ UNCHANGED hmError
     ELSE /\ hmError' = Word(outcome)
          /\ UNCHANGED <<hmResult, hmPending>>
  /\ UNCHANGED <<hmUser, hmSearchType, hmTerm, hmCleanup, hmAttached, hmDetached,
                 hmSubmits>>

\* resetAnalysis (part_000 lines 94-96) and the commit that follows: the
\* form replaces the result view, and its canvases leave the document
\* before the effect's cleanup runs.
HomeReset ==
  /\ HomeStep
  /\ hmPhase = "idle"
  /\ ~hmPending
  /\ hmResult # <<>>
  /\ hmResult' = <<>>
  /\ hmAttached' = AttachedAfter(hmAttached, {})
  /\ hmDetached' = DetachedAfter(hmAttached, hmDetached, {})
  /\ hmPending' = TRUE
  /\ UNCHANGED <<hmPhase, hmUser, hmAnalyzing, hmError, hmSearchType, hmTerm,
                 hmCleanup, hmSubmits>>

\* The chart effect (part_000 lines 406-587) when analysisResult changed:
\* the cleanupCharts its last run returned, then its body.
HomeChartEffect ==
  /\ HomeStep
  /\ hmPending
  /\ LET a0 == IF hmCleanup THEN CleanupCharts(hmAttached) ELSE hmAttached
         canvases == HomeCanvases(hmResult, hmSearchType, hmTerm)
     IN IF hmResult = <<>> \/ hmSearchType # "startup"
        THEN /\ hmAttached' = a0
             /\ hmCleanup' = FALSE
        ELSE /\ hmAttached' = [id \in HomeChartIds |->
                                 IF id \in canvases THEN 1 ELSE 0]
             /\ hmCleanup' = TRUE
  /\ hmPending' = FALSE
  /\ UNCHANGED <<hmPhase, hmUser, hmAnalyzing, hmError, hmResult, hmSearchType,
                 hmTerm, hmDetached, hmSubmits>>

\* Leaving the page: the document loses the page, then cleanupCharts runs.
HomeUnmount ==
  /\ HomeStep
  /\ hmPhase # "unmounted"
  /\ ~hmPending
  /\ hmPhase' = "unmounted"
  /\ hmAttached' = AttachedAfter(hmAttached, {})
  /\ hmDetached' = DetachedAfter(hmAttached, hmDetached, {})
  /\ hmCleanup' = FALSE
  /\ UNCHANGED <<hmUser, hmAnalyzing, hmError, hmResult, hmSearchType, hmTerm,
                 hmPending, hmSubmits>>

\* Coming back to the page: every useState starts over (page.tsx 18-21).
HomeMount ==
  /\ HomeStep
  /\ hmPhase = "unmounted"
  /\ hmPhase' = "idle"
  /\ hmAnalyzing' = FALSE
  /\ hmError' = JNull
  /\ hmResult' = <<>>
  /\ hmPending' = FALSE
  /\ hmCleanup' = FALSE
  /\ UNCHANGED <<hmUser, hmSearchType, hmTerm, hmAttached, hmDetached, hmSubmits>>

HomeSignInStep == \E ok \in BOOLEAN : HomeSignIn(ok)
HomeSubmitStep ==
  \E searchType \in {"startup", "founder"} : \E term \in SearchTerms :
    HomeSubmit(searchType, term)
HomeResponseStep ==
  \E outcome \in HomeOutcomes : \E analysis \in HomeAnalyses :
    HomeResponse(outcome, analysis)

(***************************************************************************)
(* The Compare page as a component (page.tsx lines 346-476, 955-1166):    *)
(* its state, its two effects and the chart handles it owns.              *)
(***************************************************************************)
MaxPageSubmits == 2

\* The value of responseData.comparison: null, or a string.  The string is
\* a text shape together with the JSON object it embeds; '' is the empty
\* text.
NoComparison == [k |-> "null", text |-> <<>>, json |-> <<>>]
ComparisonText(text, json) == [k |-> "string", text |-> text, json |-> json]
EmptyComparison == ComparisonText(<<>>, <<>>)

\* JavaScript truthiness of a string-or-null: a non-empty string.
TruthyText(c) == c.k = "string" /\ c.text # <<>>

\* The pairs of names typed into the form (compareSchema, lines 337-343:
\* exactly two businesses, each name non-empty).
PageNamePairs ==
  { << <<"A", "c", "m", "e">>, <<"G", "l", "o", "b", "e", "x">> >>,
    << <<"G", "l", "o", "b", "e", "x">>, <<"H", "o", "o", "l", "i">> >> }

\* The JSON objects of the answers: keyed by Acme and Globex, every field
\* reported or only the funding.
PageJsons ==
  { [key \in {<<"A", "c", "m", "e">>, <<"G", "l", "o", "b", "e", "x">>} |-> d] :
      d \in {PresentData(MetricFields, Num(2, 0)),
             PresentData({"funding"}, Num(1, 50))} }

\* What the oracle may answer: prose only, or prose around a fenced object.
PageComparisons ==
  {ComparisonText(<<"prose">>, j) : j \in PageJsons} \cup
  {ComparisonText(<<"prose", "fenceJson", "obj", "fence", "prose">>, j) :
     j \in PageJsons}

\* What a submit can come back with (lines 439-469): a 2xx body with
\* success true and a comparison, a 2xx body with success false, a non-2xx
\* status, or a rejected fetch.
PageOutcomes == {"success", "failure", "http", "network"}

\* chartInstances.current starts as {} (line 364).
NoHandles == [slot \in ChartSlots |-> "none"]
NoLive == [slot \in ChartSlots |-> 0]

\* Object.values(chartInstances.current).forEach(chart => chart.destroy())
\* (lines 401-403 and 410-412): every held instance is destroyed; the
\* handle stays in the ref.
DestroyAll(handle) ==
  [slot \in ChartSlots |-> IF handle[slot] = "live" THEN "destroyed" ELSE handle[slot]]
LiveAfterDestroy(handle, live) ==
  [slot \in ChartSlots |-> IF handle[slot] = "live" THEN live[slot] - 1 ELSE live[slot]]

\* The canvases in the document (lines 955, 1035-1048): the four canvases
\* exist while the result view is shown with metrics.
PageCanvases(result, metrics) ==
  IF TruthyText(result) /\ metrics # NoMetrics THEN MountedCanvases ELSE {}

\* The slots createCharts (lines 604-940) builds a Chart instance for: the
\* slot has a canvas and its data calls for a chart, not for a placeholder.
ChartedSlots(result, metrics, names) ==
  {slot \in PageCanvases(result, metrics) :
     createCharts(metrics, names)[slot].kind \notin {"none", "placeholder"}}

IdlePage ==
  /\ pgPhase = "idle"
  /\ pgUser = TRUE
  /\ pgAnalyzing = FALSE
  /\ pgError = JNull
  /\ pgResult = NoComparison
  /\ pgNames = <<>>
  /\ pgMetrics = NoMetrics
  /\ pgPending = {}
  /\ pgCleanup = FALSE
  /\ pgHandle = NoHandles
  /\ pgLive = NoLive
  /\ pgSubmits = 0

\* onSubmit without a user (lines 418-430): signInWithGoogle either starts
\* the OAuth round trip, after which the page is loaded afresh with a
\* user, or rejects, and the message is shown.
PageSignIn(ok) ==
  /\ PageStep
  /\ pgPhase = "idle"
  /\ pgPending = {}
  /\ ~pgUser
  /\ IF ok
     THEN /\ pgUser' = TRUE
          /\ pgError' = JNull
     ELSE /\ pgError' = Word("Please sign in to compare businesses")
          /\ UNCHANGED pgUser
  /\ UNCHANGED <<pgPhase, pgAnalyzing, pgResult, pgNames, pgMetrics, pgPending,
                 pgCleanup, pgHandle, pgLive, pgSubmits>>

\* onSubmit with a user, up to the fetch (lines 432-446).  The form is
\* shown only while comparisonResult is falsy (line 955) and its button is
\* disabled while isAnalyzing (line 992).  businessNames is a new array, so
\* both effects are due after the commit.
PageSubmit(names) ==
  /\ PageStep
  /\ pgPhase = "idle"
  /\ pgPending = {}
  /\ pgUser
  /\ ~pgAnalyzing
  /\ ~TruthyText(pgResult)
  /\ pgSubmits < MaxPageSubmits
  /\ pgSubmits' = pgSubmits + 1
  /\ pgPhase' = "fetching"
  /\ pgAnalyzing' = TRUE
  /\ pgError' = JNull
  /\ pgResult' = NoComparison
  /\ pgNames' = names
  /\ pgPending' = {"metrics", "charts"}
  /\ UNCHANGED <<pgUser, pgMetrics, pgCleanup, pgHandle, pgLive>>

\* The rest of onSubmit (lines 448-469), once the fetch has settled.
PageResponse(outcome, comparison) ==
  /\ PageStep
  /\ pgPhase = "fetching"
  /\ pgPending = {}
  /\ pgPhase' = "idle"
  /\ pgAnalyzing' = FALSE
  /\ IF outcome = "success"
     THEN /\ pgResult' = comparison
          /\ pgPending' = IF comparison # pgResult THEN {"metrics"} ELSE {}
          /\ UNCHANGED pgError
     ELSE /\ pgError' = Word(outcome)
          /\ UNCHANGED <<pgResult, pgPending>>
  /\ UNCHANGED <<pgUser, pgNames, pgMetrics, pgCleanup, pgHandle, pgLive, pgSubmits>>

\* Faulty variant of resetComparison: the metrics are left in place.
PageReset_KeepMetrics ==
  /\ PageStep
  /\ pgPhase = "idle"
  /\ pgPending = {}
  /\ TruthyText(pgResult)
  /\ pgResult' = NoComparison
  /\ pgNames' = <<>>
  /\ pgPending' = {"metrics", "charts"}
  /\ UNCHANGED <<pgPhase, pgUser, pgAnalyzing, pgError, pgMetrics, pgCleanup,
                 pgHandle, pgLive, pgSubmits>>

\* resetComparison (lines 472-476).
PageReset ==
  /\ PageStep
  /\ pgPhase = "idle"
  /\ pgPending = {}
  /\ TruthyText(pgResult)
  /\ pgResult' = NoComparison
  /\ pgMetrics' = NoMetrics
  /\ pgNames' = <<>>
  /\ pgPending' = {"metrics", "charts"}
  /\ UNCHANGED <<pgPhase, pgUser, pgAnalyzing, pgError, pgCleanup, pgHandle,
                 pgLive, pgSubmits>>

\* The chart effect (lines 397-414) when [metrics, businessNames] changed:
\* the cleanup its last run returned, then its body.  Its body reads the
\* metrics of the commit, so when both effects are due it is taken first
\* here: the metrics effect's setMetrics only shows in the next commit.
PageChartEffect ==
  /\ PageStep
  /\ "charts" \in pgPending
  /\ LET h0 == IF pgCleanup THEN DestroyAll(pgHandle) ELSE pgHandle
         l0 == IF pgCleanup THEN LiveAfterDestroy(pgHandle, pgLive) ELSE pgLive
     IN IF pgMetrics = NoMetrics
        THEN /\ pgHandle' = h0
             /\ pgLive' = l0
             /\ pgCleanup' = FALSE
        ELSE LET h1 == DestroyAll(h0)
                 l1 == LiveAfterDestroy(h0, l0)
                 made == ChartedSlots(pgResult, pgMetrics, pgNames)
             IN /\ pgHandle' = [slot \in ChartSlots |->
                                  IF slot \in made THEN "live" ELSE h1[slot]]
                /\ pgLive' = [slot \in ChartSlots |->
                                IF slot \in made THEN l1[slot] + 1 ELSE l1[slot]]
                /\ pgCleanup' = TRUE
  /\ pgPending' = pgPending \ {"charts"}
  /\ UNCHANGED <<pgPhase, pgUser, pgAnalyzing, pgError, pgResult, pgNames,
                 pgMetrics, pgSubmits>>

\* The metrics effect (lines 387-394) when [comparisonResult,
\* businessNames] changed.
PageMetricsEffect ==
  /\ PageStep
  /\ "metrics" \in pgPending
  /\ "charts" \notin pgPending
  /\ IF TruthyText(pgResult) /\ Len(pgNames) = 2
     THEN /\ pgMetrics' =
               extractMetricsFromText(pgResult.text, pgResult.json, pgNames).metrics
          /\ pgPending' = {"charts"}
     ELSE /\ pgPending' = {}
          /\ UNCHANGED pgMetrics
  /\ UNCHANGED <<pgPhase, pgUser, pgAnalyzing, pgError, pgResult, pgNames,
                 pgCleanup, pgHandle, pgLive, pgSubmits>>

\* Leaving the page: the chart effect's cleanup runs (lines 408-413); a
\* fetch still in flight settles into a component that is gone.
PageUnmount ==
  /\ PageStep
  /\ pgPhase # "unmounted"
  /\ pgPending = {}
  /\ pgPhase' = "unmounted"
  /\ pgHandle' = IF pgCleanup THEN DestroyAll(pgHandle) ELSE pgHandle
  /\ pgLive' = IF pgCleanup THEN LiveAfterDestroy(pgHandle, pgLive) ELSE pgLive
  /\ pgCleanup' = FALSE
  /\ UNCHANGED <<pgUser, pgAnalyzing, pgError, pgResult, pgNames, pgMetrics,
                 pgPending, pgSubmits>>

\* Coming back to the page: every useState and useRef starts over (lines
\* 350-364); the Chart instances made before are whatever they were.
PageMount ==
  /\ PageStep
  /\ pgPhase = "unmounted"
  /\ pgPhase' = "idle"
  /\ pgAnalyzing' = FALSE
  /\ pgError' = JNull
  /\ pgResult' = NoComparison
  /\ pgNames' = <<>>
  /\ pgMetrics' = NoMetrics
  /\ pgPending' = {}
  /\ pgCleanup' = FALSE
  /\ pgHandle' = NoHandles
  /\ UNCHANGED <<pgUser, pgLive, pgSubmits>>

PageSignInStep == \E ok \in BOOLEAN : PageSignIn(ok)
PageSubmitStep == \E names \in PageNamePairs : PageSubmit(names)
PageResponseStep ==
  \E outcome \in PageOutcomes :
    \E comparison \in PageComparisons \cup {NoComparison, EmptyComparison} :
      PageResponse(outcome, comparison)

InitPage ==
  /\ pgPhase = "idle"
  /\ pgUser \in BOOLEAN
  /\ pgAnalyzing = FALSE
  /\ pgError = JNull
  /\ pgResult = NoComparison
  /\ pgNames = <<>>
  /\ pgMetrics = NoMetrics
  /\ pgPending = {}
  /\ pgCleanup = FALSE
  /\ pgHandle = NoHandles
  /\ pgLive = NoLive
  /\ pgSubmits = 0
  /\ IdleForm
  /\ oracleUp = TRUE
  /\ IdleRoute
  /\ apiKey = TRUE
  /\ IdleNorm
  /\ IdleCompare
  /\ IdleSections
  /\ IdleExtract
  /\ IdleHome
  /\ IdleCite
  /\ IdleDash

NextPage ==
  \/ PageSignInStep
  \/ PageSubmitStep
  \/ PageResponseStep
  \/ PageReset
  \/ PageChartEffect
  \/ PageMetricsEffect
  \/ PageUnmount
  \/ PageMount

SpecPage == InitPage /\ [][NextPage]_vars

InitExtract ==
  /\ epc = "input"
  /\ exText \in PhraseTexts(MaxPhrases)
  /\ exSearchTerm \in SearchTerms
  /\ exData = NoData
  /\ exThrew = FALSE
  /\ IdleForm
  /\ oracleUp = TRUE
  /\ IdleRoute
  /\ apiKey = TRUE
  /\ IdleNorm
  /\ IdleCompare
  /\ IdleSections
  /\ IdlePage
  /\ IdleHome
  /\ IdleCite
  /\ IdleDash

NextExtract ==
  \/ ExtractDataFromAnalysis

SpecExtract == InitExtract /\ [][NextExtract]_vars

(***************************************************************************)
(* Specifications                                                          *)
(***************************************************************************)
InitForm ==
  /\ IdleForm
  /\ oracleUp \in BOOLEAN
  /\ IdleRoute
  /\ apiKey = TRUE
  /\ IdleNorm
  /\ IdleCompare
  /\ IdleSections
  /\ IdlePage
  /\ IdleExtract
  /\ IdleHome
  /\ IdleCite
  /\ IdleDash

SpecForm == InitForm /\ [][NextForm]_vars

InitRoute ==
  /\ IdleRoute
  /\ apiKey \in BOOLEAN
  /\ IdleForm
  /\ oracleUp = TRUE
  /\ IdleNorm
  /\ IdleCompare
  /\ IdleSections
  /\ IdlePage
  /\ IdleExtract
  /\ IdleHome
  /\ IdleCite
  /\ IdleDash

SpecRoute == InitRoute /\ [][NextRoute]_vars

InitNorm ==
  /\ npc = "input"
  /\ normData \in DataObjects
  /\ metricsObj = NullMetrics
  /\ IdleForm
  /\ oracleUp = TRUE
  /\ IdleRoute
  /\ apiKey = TRUE
  /\ IdleCompare
  /\ IdleSections
  /\ IdlePage
  /\ IdleExtract
  /\ IdleHome
  /\ IdleCite
  /\ IdleDash

SpecNorm == InitNorm /\ [][NextNorm]_vars

InitCompare ==
  /\ cpc = "text"
  /\ cNames \in NamePool \X NamePool
  /\ cText \in TextShapes
  /\ cJson \in JsonObjects
  /\ cOutcome = NULL
  /\ cMetrics = NoMetrics
  /\ cTable = <<>>
  /\ cCharts = <<>>
  /\ IdleForm
  /\ oracleUp = TRUE
  /\ IdleRoute
  /\ apiKey = TRUE
  /\ IdleNorm
  /\ IdleSections
  /\ IdlePage
  /\ IdleExtract
  /\ IdleHome
  /\ IdleCite
  /\ IdleDash

SpecCompare == InitCompare /\ [][NextCompare]_vars

InitSections ==
  /\ spc = "input"
  /\ secContent \in ShortTexts \cup CanonicalTexts \cup UnmatchedHeadingTexts
  /\ secResult = <<>>
  /\ secThrew = FALSE
  /\ IdleForm
  /\ oracleUp = TRUE
  /\ IdleRoute
  /\ apiKey = TRUE
  /\ IdleNorm
  /\ IdleCompare
  /\ IdlePage
  /\ IdleExtract
  /\ IdleHome
  /\ IdleCite
  /\ IdleDash

SpecSections == InitSections /\ [][NextSections]_vars

(***************************************************************************)
(* Claims                                                                  *)
(***************************************************************************)

\* C1: in the AnalysisForm submit flow a failure of the create-startup or
\* save-analysis call never blocks the result: whenever a run of onSubmit has
\* ended and the oracle analysis could be obtained, the analysis was
\* generated and shown.
C1_PersistenceNeverBlocksResult ==
  (fpc = "idle" /\ submits > 0 /\ oracleUp) => (routeCalls = 1 /\ shown)

\* A businessesString that is exactly two comma-separated names: a string
\* with one comma and a non-blank name on either side of it.
ExactlyTwoNames(v) ==
  /\ v.k = "string"
  /\ LET parts == split(v.s)
     IN Len(parts) = 2 /\ \A i \in 1..Len(parts) : trim(parts[i]) # <<>>

\* C3: POST compare (checked on the validating handler, with the API key
\* configured) answers 400, without calling the oracle, for every
\* businessesString that is not exactly two comma-separated names, so it
\* reaches the oracle only with exactly two names.
C3_CompareRejectsAllButTwoNames ==
  (rpc # "idle" /\ route = "compare" /\ apiKey
     /\ ~ExactlyTwoNames(reqBody.businessesString))
    => (rpc = "done" /\ response.status = 400 /\ ~response.success /\ oracleCalls = 0)

\* Both names of an analyze body are empty or absent.
BothNamesEmpty(body) ==
  /\ body.startupName \in {Undefined, Str(<<>>)}
  /\ body.founderName \in {Undefined, Str(<<>>)}

\* C4: POST analyze rejects a body whose startupName and founderName are both
\* empty or absent with status 400 and success:false without calling the
\* oracle, and never answers 400 to a body with at least one non-empty name.
C4_AnalyzeValidation ==
  (rpc # "idle" /\ route = "analyze") =>
    IF BothNamesEmpty(reqBody)
    THEN rpc = "done" /\ response.status = 400 /\ ~response.success /\ oracleCalls = 0
    ELSE rpc = "done" => response.status # 400

C4_Witness ==
  /\ rpc = "done" /\ route = "analyze"
  /\ reqBody = [startupName |-> Str(<<>>), founderName |-> Undefined]
  /\ response.status = 400

\* The request got past the handler's input validation.
PassedValidation ==
  \/ route = "analyze" /\ ~AnalyzeInvalid(reqBody)
  \/ /\ route = "compare"
     /\ ~CompareMissing(reqBody.businessesString)
     /\ ~CompareWrongCount(SplitNames(reqBody.businessesString.s))

\* C5 as written: a request that passes validation makes exactly one
\* completion call, and an oracle failure is answered with an error envelope
\* without another call.
C5_ExactlyOneOracleCall ==
  /\ (rpc # "idle" /\ PassedValidation) => oracleCalls = 1
  /\ (rpc = "done" /\ oracleOutcome = "reject") => (~response.success /\ oracleCalls = 1)

\* C5 amended: every request makes at most one completion call; a request
\* that passes validation makes exactly one when the API key is configured
\* (without a key the compare routes answer 500 and make none); an oracle
\* failure is answered with an error envelope without another call.
C5_AtMostOneOracleCall ==
  /\ oracleCalls <= 1
  /\ (rpc # "idle" /\ PassedValidation /\ apiKey) => oracleCalls = 1
  /\ (rpc = "done" /\ oracleOutcome = "reject")
       => (~response.success /\ response.status = 500 /\ oracleCalls = 1)

C5_Witness ==
  /\ rpc = "done" /\ route = "compare" /\ apiKey
  /\ oracleOutcome = "reject" /\ oracleCalls = 1

MoneyFields == {"funding", "valuation", "revenue"}

\* The factor that takes a value in the given unit to millions.
UnitFactor(u) ==
  CASE u = Word("billion") -> 1000
    [] u = Word("trillion") -> 1000000
    [] OTHER -> 1

\* C8: money normalisation scales every money field (funding, valuation,
\* revenue) to millions by its unit: million x 1, billion x 1000, trillion
\* x 1,000,000, no unit unscaled, the same for each field.
C8_MoneyScaledByUnit ==
  npc = "processed" =>
    \A f \in MoneyFields :
      Truthy(normData[f]) =>
        metricsObj[f] = Number(normData[f].n * UnitFactor(normData[UnitOf(f)]))

RatioFields == {"growthRate", "marketShare"}

\* C9 as written: a ratio value <= 1 is multiplied by 100, a value > 1 is
\* returned unchanged (and so is left as it is when normalised again).
C9_RatioNormalisation ==
  npc = "processed" =>
    \A f \in RatioFields :
      normData[f].k = "number" =>
        /\ normData[f].n <= Num(1, 0) => metricsObj[f] = Number(normData[f].n * 100)
        /\ normData[f].n > Num(1, 0) =>
             /\ metricsObj[f] = normData[f]
             /\ RatioToPercent(metricsObj[f]) = metricsObj[f]

\* C9 amended: a ratio value <= 1 other than 0 is multiplied by 100, a value
\* > 1 is returned unchanged and is left as it is when normalised again; a
\* value of exactly 0 is stored as unknown (null).
C9_RatioNormalisationNonZero ==
  npc = "processed" =>
    \A f \in RatioFields :
      normData[f].k = "number" =>
        /\ normData[f].n = 0 => metricsObj[f] = JNull
        /\ (normData[f].n # 0 /\ normData[f].n <= Num(1, 0))
             => metricsObj[f] = Number(normData[f].n * 100)
        /\ normData[f].n > Num(1, 0) =>
             /\ metricsObj[f] = normData[f]
             /\ RatioToPercent(metricsObj[f]) = metricsObj[f]

C9_Witness ==
  /\ npc = "processed"
  /\ normData.growthRate = Number(Num(0, 23))
  /\ metricsObj.growthRate = Number(Num(23, 0))

Separators == {",", "_"}

\* A count written with group separators: digits in groups of three from
\* the right, each group preceded by a comma or an underscore, and no
\* leading zero.
IsGrouped(s) ==
  /\ s # <<>>
  /\ s[1] \in Digits \ {"0"}
  /\ \A i \in 1..Len(s) :
       IF (Len(s) - i) % 4 = 3 THEN s[i] \in Separators ELSE s[i] \in Digits
  /\ \E i \in 1..Len(s) : s[i] \in Separators

\* C10: employee-count normalisation strips commas and underscores before
\* integer parsing: a count written with group separators is stored as the
\* full integer.
C10_EmployeesSeparatorsStripped ==
  (npc = "processed" /\ normData.employees.k = "string"
     /\ IsGrouped(normData.employees.s))
    => metricsObj.employees =
         Number(Num(DigitsValue(SelectSeq(normData.employees.s,
                                          LAMBDA c : c \in Digits)), 0))

\* ---- claims about the Compare page (SpecCompare) ----
UnknownField(i, f) == cMetrics[cNames[i]][f] = JNull

PlottedAsZero(i, f) ==
  \E slot \in ChartSlots : \E k \in DOMAIN cCharts[slot].points :
     /\ cCharts[slot].points[k].subject = i
     /\ cCharts[slot].points[k].field = f
     /\ cCharts[slot].points[k].value = Number(0)

\* C2: a metrics field that is unknown (null) is shown as 'N/A' in the
\* comparison table, and in no chart (bars, pie, radar) does a data point
\* with value 0 stand for an unknown field of either subject.
C2_UnknownNeverShownAsZero ==
  cpc = "charted" =>
    \A i \in 1..2 : \A f \in MetricFields :
       UnknownField(i, f) => (cTable[i][f].text = "N/A" /\ ~PlottedAsZero(i, f))

NoFencedBlock(text) == ~FenceMatch(text, {"fence", "fenceJson"}).found

AllUnknown(metrics, names) ==
  \A i \in 1..2 : \A f \in MetricFields : metrics[names[i]][f] = JNull

Parsed(text, json) == JsonMatch(text, json).found /\ ParseOk(JsonStr(JsonMatch(text, json)))

KeysIgnoringCase(json, name) ==
  {k \in DOMAIN json : toLowerCase(k) = toLowerCase(name)}

\* C7: in structured extraction each input name is matched to a top-level
\* JSON key ignoring case: whenever exactly one key equals the name ignoring
\* case, the subject's metrics are the normalised values stored under it.
C7_CaseInsensitiveKeyMatch ==
  (cpc # "text" /\ Parsed(cText, cJson)) =>
    \A i \in 1..2 : \A k \in KeysIgnoringCase(cJson, cNames[i]) :
       KeysIgnoringCase(cJson, cNames[i]) = {k}
         => cMetrics[cNames[i]] = processBusinessData(cJson[k], NullMetrics)

\* ---- claims about the route handlers, continued (SpecRoute) ----
\* C11: if the oracle response has no text content (null or empty message
\* content), the analyze and compare routes answer an error (success:false)
\* instead of success:true.
C11_EmptyOracleResponseFails ==
  (rpc = "done" /\ oracleOutcome = "empty") =>
    (~response.success /\ response.status # 200)

\* ---- claims about the analysis form, continued (SpecForm) ----
\* The messages a failed create-startup or save-analysis call produces.
PersistenceErrors == {"Failed to create startup", "Failed to save analysis", "fetch failed"}

\* The form's error banner ({error && ...} inside the !analysisResult branch).
BannerText == IF analysisResult = NULL THEN hookError ELSE NULL

\* C12: a persistence failure is logged and never surfaced: after any
\* sequence of submits and 'Analyze Another Startup' clicks, the error banner
\* never shows a message that comes from a failed create-startup or
\* save-analysis call.
C12_PersistenceFailureNeverInBanner == BannerText \notin PersistenceErrors

\* ---- claims about section parsing (SpecSections) ----
CanonicalKeys ==
  <<"overview", "marketOpportunity", "competitiveLandscape", "businessModel",
    "teamAssessment", "risksAndChallenges", "investmentPotential">>

SectionFound(i) == FirstMatch(secContent, SectionPatterns[i].re, 1) # 0

\* C13: for every oracle text, section parsing returns exactly the seven
\* canonical keys in canonical order, each mapped to a string; a section not
\* found in the text is the empty string, and parsing does not throw.
C13_SevenStringSections ==
  spc = "parsed" =>
    /\ ~secThrew
    /\ Len(secResult) = 7
    /\ \A i \in 1..7 :
         /\ secResult[i].key = CanonicalKeys[i]
         /\ secResult[i].value.k = "string"
         /\ ~SectionFound(i) => secResult[i].value = Str(<<>>)

C13_Witness ==
  /\ spc = "parsed"
  /\ SectionFound(1)
  /\ ~SectionFound(2)
  /\ secResult[1].value # Str(<<>>)
  /\ secResult[2].value = Str(<<>>)

\* ---- claims about the Compare page, continued (SpecCompare) ----
MarketDataKnown(i) ==
  /\ cMetrics[cNames[i]].marketSize # JNull
  /\ cMetrics[cNames[i]].marketShare # JNull

\* C14: the market-share pie chart is constructed whenever marketSize and
\* marketShare are both known for at least one of the two subjects; the
\* placeholder is drawn only when that holds for neither subject.
C14_PieWhenOneSubjectHasMarketData ==
  cpc = "charted" =>
    /\ (\E i \in 1..2 : MarketDataKnown(i)) => cCharts.market.kind = "pie"
    /\ cCharts.market.kind = "placeholder" => \A i \in 1..2 : ~MarketDataKnown(i)

\* ---- claims about section parsing, continued (SpecSections) ----
\* C15: for every text made of the seven canonical headings in canonical
\* order, each followed by at least one bullet line, parsing recovers all
\* seven section keys with non-empty content.
C15_CanonicalTextRoundTrip ==
  (spc = "parsed" /\ secContent \in CanonicalTexts) =>
    \A i \in 1..7 : secResult[i].value # Str(<<>>)

\* ---- claims about the route handlers, continued (SpecRoute) ----
\* C16: the oracle is called only on behalf of a signed-in user: a request
\* to the analyze route without a valid session makes no oracle call.
C16_OracleOnlyForSignedInUser ==
  (route = "analyze" /\ oracleCalls > 0) => authOutcome = "session"

\* ---- claims about structured extraction, continued (SpecCompare) ----
NoNameMatches ==
  \A i \in 1..2 : KeysIgnoringCase(cJson, cNames[i]) = {}

\* C17: when no input name matches any top-level JSON key, structured
\* extraction pairs by position: the two JSON keys' metrics go to the two
\* input names, the first key's to the first name and the second key's to
\* the second (whichever of the two keys the text puts first).
C17_PositionalFallback ==
  (cpc # "text" /\ Parsed(cText, cJson) /\ cNames[1] # cNames[2]
     /\ Cardinality(DOMAIN cJson) = 2 /\ NoNameMatches)
    => \E k1, k2 \in DOMAIN cJson :
         /\ k1 # k2
         /\ cMetrics[cNames[1]] = processBusinessData(cJson[k1], NullMetrics)
         /\ cMetrics[cNames[2]] = processBusinessData(cJson[k2], NullMetrics)

\* The text embeds something the patterns take for JSON, and it is not one
\* well-formed object.
EmbeddedJsonUnparsable ==
  /\ JsonMatch(cText, cJson).found
  /\ JsonStr(JsonMatch(cText, cJson)) # <<"obj">>

MatchedData(i) == cJson[MatchedKey(cJson, cNames[i])[1]]

\* C19: after structured extraction, every metrics field absent from the
\* matched JSON value object is null, and a subject for which no JSON key
\* matched has all eight fields null; no absent field becomes 0, an empty
\* string or undefined.
C19_AbsentFieldsAreNull ==
  (cpc # "text" /\ Parsed(cText, cJson)) =>
    \A i \in 1..2 : \A f \in MetricFields :
       (\/ MatchedKey(cJson, cNames[i]) = <<>>
        \/ MatchedData(i)[f] = Undefined)
         => cMetrics[cNames[i]][f] = JNull

C19_Witness ==
  /\ cpc = "extracted"
  /\ Parsed(cText, cJson)
  /\ MatchedKey(cJson, cNames[1]) # <<>>
  /\ MatchedData(1).funding # Undefined
  /\ MatchedData(1).valuation = Undefined
  /\ cMetrics[cNames[1]].funding # JNull
  /\ cMetrics[cNames[1]].valuation = JNull
  /\ MatchedKey(cJson, cNames[2]) = <<>>
  /\ AllUnknown(cMetrics, <<cNames[2], cNames[2]>>)

\* ---- claims about the normaliser, continued (SpecNorm) ----
\* A string that does not start with a digit once its separators are gone.
NotANumber(v) ==
  /\ v.k = "string"
  /\ LET digits == SelectSeq(v.s, LAMBDA c : c \notin Separators)
     IN digits = <<>> \/ digits[1] \notin Digits

\* C20: the normalisers map unparseable input to unknown: a field value that
\* cannot be parsed as a number is stored as null, never as 0 and never as a
\* not-a-number value.
C20_UnparseableBecomesUnknown ==
  npc = "processed" =>
    \A f \in MetricFields :
       /\ metricsObj[f] # NaN
       /\ NotANumber(normData[f]) => metricsObj[f] = JNull

\* ---- claims about the charts, continued (SpecCompare) ----
BarSlots == {"funding", "valuation", "growth"}
BarField(slot) == IF slot = "growth" THEN "growthRate" ELSE slot

KnownSubjects(f) == {i \in 1..2 : cMetrics[cNames[i]][f] # JNull}

\* C21: each of the funding, valuation and growth-rate bar charts plots
\* exactly the subjects whose value for the metric is known, each with its
\* own name and colour; when the metric is unknown for both subjects no chart
\* is created and a placeholder is drawn instead.
C21_BarChartsPlotKnownSubjects ==
  cpc = "charted" =>
    \A slot \in BarSlots :
      LET chart == cCharts[slot]
          known == KnownSubjects(BarField(slot))
      IN IF known = {}
         THEN chart.kind = "placeholder"
         ELSE /\ chart.kind = "bar"
              /\ Len(chart.points) = Cardinality(known)
              /\ {chart.points[k].subject : k \in DOMAIN chart.points} = known
              /\ \A k \in DOMAIN chart.points :
                   /\ chart.points[k].label = cNames[chart.points[k].subject]
                   /\ chart.points[k].colour = chart.points[k].subject
                   /\ chart.points[k].value =
                        cMetrics[cNames[chart.points[k].subject]][BarField(slot)]

InitHome ==
  /\ hmPhase = "idle"
  /\ hmUser \in BOOLEAN
  /\ hmAnalyzing = FALSE
  /\ hmError = JNull
  /\ hmResult = <<>>
  /\ hmSearchType = "startup"
  /\ hmTerm = "Stripe"
  /\ hmPending = FALSE
  /\ hmCleanup = FALSE
  /\ hmAttached = NoCharts
  /\ hmDetached = NoCharts
  /\ hmSubmits = 0
  /\ IdleForm
  /\ oracleUp = TRUE
  /\ IdleRoute
  /\ apiKey = TRUE
  /\ IdleNorm
  /\ IdleCompare
  /\ IdleSections
  /\ IdlePage
  /\ IdleExtract
  /\ IdleCite
  /\ IdleDash

NextHome ==
  \/ HomeSignInStep
  \/ HomeSubmitStep
  \/ HomeResponseStep
  \/ HomeReset
  \/ HomeChartEffect
  \/ HomeUnmount
  \/ HomeMount

SpecHome == InitHome /\ [][NextHome]_vars

(***************************************************************************)
(* C22, C27, C28: the pages' lifecycles                                    *)
(***************************************************************************)
\* C22: per chart slot there is never more than one live chart instance,
\* and none is left alive once the page was reset or unmounted: on the
\* Compare page no slot holds two live instances and none is live when the
\* metrics are cleared or the page is gone; on the Home page no canvas id
\* has two live charts and none is live when the result is cleared or the
\* page is gone.
C22_OneLiveHandlePerSlot ==
  /\ \A slot \in ChartSlots : pgLive[slot] <= 1
  /\ (~("charts" \in pgPending) /\ (pgPhase = "unmounted" \/ pgMetrics = NoMetrics))
       => \A slot \in ChartSlots : pgLive[slot] = 0
  /\ \A id \in HomeChartIds : hmAttached[id] + hmDetached[id] <= 1
  /\ (~hmPending /\ (hmPhase = "unmounted" \/ hmResult = <<>>))
       => \A id \in HomeChartIds : hmAttached[id] + hmDetached[id] = 0

\* C27: on the Compare page metrics are only held together with the
\* comparison text and the names they were extracted for: when metrics is
\* non-null, comparisonResult is a non-empty text, there are two business
\* names and the keys of metrics are exactly those names, and the metrics
\* are the extraction of that text for those names.
C27_MetricsMatchNamesAndText ==
  pgMetrics # NoMetrics =>
    /\ TruthyText(pgResult)
    /\ Len(pgNames) = 2
    /\ DOMAIN pgMetrics = {pgNames[1], pgNames[2]}
    /\ pgMetrics = extractMetricsFromText(pgResult.text, pgResult.json, pgNames).metrics

\* C27 witness: a second comparison, for other names than the first, has
\* its metrics on display.
C27_Witness ==
  /\ pgSubmits = 2
  /\ pgMetrics # NoMetrics
  /\ pgPending = {}

\* C28: every submit by a signed-in user that gets its response ends with
\* isAnalyzing false and with exactly one of the two: the result set and
\* error null, or error set and the result null.  A submit ends in the step
\* that takes the page from fetching back to idle.
C28_SubmitEndsWithResultOrError ==
  [][/\ (pgPhase = "fetching" /\ pgPhase' = "idle") =>
          /\ ~pgAnalyzing'
          /\ (TruthyText(pgResult') /\ pgError' = JNull) \/
             (~TruthyText(pgResult') /\ pgError' # JNull)
     /\ (hmPhase = "fetching" /\ hmPhase' = "idle") =>
          /\ ~hmAnalyzing'
          /\ (hmResult' # <<>> /\ hmError' = JNull) \/
             (hmResult' = <<>> /\ hmError' # JNull)]_vars

InitCite ==
  /\ cipc = "input"
  /\ ciLine \in SeqsUpTo(LineTokens, MaxLineLen)
  /\ ciCitations \in CitationLists
  /\ ciRendered = <<>>
  /\ IdleForm
  /\ oracleUp = TRUE
  /\ IdleRoute
  /\ apiKey = TRUE
  /\ IdleNorm
  /\ IdleCompare
  /\ IdleSections
  /\ IdlePage
  /\ IdleExtract
  /\ IdleHome
  /\ IdleDash

NextCite ==
  \/ RenderLine

SpecCite == InitCite /\ [][NextCite]_vars

(***************************************************************************)
(* C23: headings that match no section key                                 *)
(***************************************************************************)
\* The tokens of the unmatched heading and of the content under it.
UnmatchedTokens == {"Funding", "x"}

\* C23: a heading that matches no canonical section key is dropped:
\* neither the heading nor the content under it appears in any section of
\* the parsed result.
C23_UnmatchedHeadingDropped ==
  spc = "parsed" =>
    \A i \in DOMAIN secResult :
      \A k \in DOMAIN secResult[i].value.s :
        secResult[i].value.s[k] \notin UnmatchedTokens

(***************************************************************************)
(* C24: citation markers                                                   *)
(***************************************************************************)
\* C24: a marker [n] in a content line is rendered as a hyperlink to
\* citations[n-1] exactly when 1 <= n <= the length of the citations list,
\* and is left as the literal text [n] otherwise; other tokens are left as
\* they are.
C24_MarkerLinkedIffInRange ==
  cipc = "rendered" =>
    /\ Len(ciRendered) = Len(ciLine)
    /\ \A k \in DOMAIN ciLine :
         LET n == MarkerNumber(ciLine[k].digits)
         IN IF ciLine[k].t = "marker" /\ 1 <= n /\ n <= Len(ciCitations)
            THEN ciRendered[k] =
                   [kind |-> "link", href |-> ciCitations[n], label |-> ciLine[k].digits]
            ELSE ciRendered[k] =
                   [kind |-> "text", href |-> Undefined, label |-> ciLine[k].digits]

\* C24 witness: a line with a marker in range and one out of range,
\* rendered against a non-empty list.
C24_Witness ==
  /\ cipc = "rendered"
  /\ Len(ciCitations) = 2
  /\ \E k \in DOMAIN ciRendered : ciRendered[k].kind = "link" /\ ciLine[k].digits = <<"2">>
  /\ \E k \in DOMAIN ciRendered :
       ciLine[k].t = "marker" /\ ciRendered[k].kind = "text"

InitDash ==
  /\ dExpanded = NULL
  /\ dAnalyses = [id \in StartupIds |-> FALSE]
  /\ dInFlight = [id \in StartupIds |-> 0]
  /\ dRequests = [id \in StartupIds |-> 0]
  /\ IdleForm
  /\ oracleUp = TRUE
  /\ IdleRoute
  /\ apiKey = TRUE
  /\ IdleNorm
  /\ IdleCompare
  /\ IdleSections
  /\ IdlePage
  /\ IdleExtract
  /\ IdleHome
  /\ IdleCite

NextDash ==
  \/ ToggleExpandStartupStep
  \/ FetchAnalysesSettlesStep

SpecDash == InitDash /\ [][NextDash]_vars

(***************************************************************************)
(* C29: the dashboard's analyses requests                                  *)
(***************************************************************************)
\* C29: the analyses of a startup are requested at most once: in every
\* interleaving of expand and collapse clicks and fetch completions, no
\* startup has had a second GET analyses request issued.
C29_AnalysesRequestedAtMostOnce ==
  \A id \in StartupIds : dRequests[id] <= 1

(***************************************************************************)
(* C25, C26: the heuristic extraction                                      *)
(***************************************************************************)
\* The pattern list of each scalar metric, in the order of the source.
MetricPatterns ==
  [marketSize |-> marketSizePatterns, foundingYear |-> foundingYearPatterns,
   employeeCount |-> employeePatterns, fundingAmount |-> fundingPatterns,
   valuation |-> valuationPatterns, revenueEstimate |-> revenuePatterns]

\* The patterns of a metric that match somewhere in the text.
MatchingPatterns(text, f) ==
  {i \in 1..Len(MetricPatterns[f]) : Match(text, MetricPatterns[f][i]) # 0}

\* What a metric holds when the token at p was captured for it.
StoredCapture(f, tok) == IF f = "foundingYear" THEN Number(YearValue(tok)) ELSE Word(tok)

FoundedAndRaised ==
  <<"Founded", "in", "2012", ".", "has", "raised", "$120 million", "in", "funding", ".">>

C26_CompetitorsClean ==
  epc = "extracted" =>
    LET c == exData.competitors
    IN /\ \A i, j \in DOMAIN c : i # j => c[i] # c[j]
       /\ \A i \in DOMAIN c :
            /\ c[i] # <<exSearchTerm>>
            /\ ~(Len(c[i]) = 1 /\ c[i][1] \in commonWords)
       /\ Len(c) <= 5

(***************************************************************************)
(* C30: zero values                                                        *)
(***************************************************************************)
\* The value object holds no string under a metric field.
NumericData(data) == \A f \in MetricFields : data[f].k # "string"

\* C30: for numeric field values, structured extraction never yields a
\* metric equal to 0: a field reported as exactly 0 is stored as null, and
\* every metric that is not null after processBusinessData is a number
\* other than 0.
C30_NumericZeroStoredAsNull ==
  (npc = "processed" /\ NumericData(normData)) =>
    \A f \in MetricFields :
      /\ normData[f] = Number(0) => metricsObj[f] = JNull
      /\ metricsObj[f] # JNull => metricsObj[f].k = "number" /\ metricsObj[f].n # 0

\* C30 witness: a growth rate reported as 0 was processed and is null.
C30_Witness ==
  /\ npc = "processed"
  /\ normData.growthRate = Number(0)
  /\ metricsObj.growthRate = JNull

====
